---------------------------- MODULE Spec2Model ----------------------------
(***************************************************************************)
(* Model of src/src/investment_agents: the verified-prediction pipeline    *)
(* (verified_prediction.py), the alert manager and its check_all_alerts    *)
(* coroutines (alert_system.py), the adaptive parameters with their        *)
(* suggest/approve workflow (adaptive_params.py), the entry-signal monitor *)
(* (entry_signals.py), the improvement suggestions (auto_improve.py) and   *)
(* the SOXX cap of the refined price target (refined_targets.py).          *)
(*                                                                         *)
(* Numbers.  Prices are integers (points); every derived money value is    *)
(* held multiplied by SCALE so that x * 0.98 and the 14-row mean of the    *)
(* true range stay exact.  A volume ratio is the pair num/den of the       *)
(* division that produces it, and is compared by cross-multiplication.     *)
(* Daily percent changes are held in hundredths of a percent.              *)
(* Text is a sequence of one-character strings, so that lower() and the    *)
(* substring test are computed and not assumed.                            *)
(***************************************************************************)
EXTENDS Integers, Sequences, FiniteSets, TLC

VARIABLES
    pc,                          \* position of generate_verified_prediction
    BEARISH_SENTIMENT_KEYWORDS,  \* module-level table, mutable
    symbol,                      \* symbol.upper()
    timestamp,                   \* datetime.now(): weekday and minutes since 9:30
    hist,                        \* response of ticker.history(...)
    info,                        \* response of ticker.info
    rsi,                         \* calculate_rsi(hist['Close'])
    macd_hist,                   \* third component of calculate_macd(hist['Close'])
    etf_info,                    \* response of yf.Ticker(etf).info inside tier 1
    news,                        \* response of yf.Ticker(symbol).news inside tier 2
    tier_results,                \* list[TierResult]
    pred,                        \* the VerifiedPrediction returned
    call,                        \* a direct call of one function: name and arguments
    ret,                         \* what that call returned
    alert_files,                 \* contents of ALERTS_FILE and TRIGGERED_FILE
    managers,                    \* the AlertManager instances: alerts, triggered
    checks,                      \* the running check_all_alerts coroutines
    params,                      \* AdaptiveParameterManager.params
    pending_changes,             \* AdaptiveParameterManager.pending_changes
    change_history,              \* AdaptiveParameterManager.change_history
    param_files,                 \* contents of PARAMS_FILE and PENDING_FILE
    now,                         \* datetime.now() in whole seconds
    analysis,                    \* the EntryAnalysis analyze_entry returned last
    last_signals,                \* EntrySignalMonitor._last_signals
    scan,                        \* the last scan_and_alert: signals found, messages sent
    improve                      \* AutoImproveSystem: config, pending, history, files

\* verified_prediction.py
prediction_vars ==
    << pc, BEARISH_SENTIMENT_KEYWORDS, symbol, timestamp, hist, info, rsi,
       macd_hist, etf_info, news, tier_results, pred, call, ret >>

\* alert_system.py
alert_vars == << alert_files, managers, checks >>

\* adaptive_params.py
param_vars == << params, pending_changes, change_history, param_files, now >>

\* entry_signals.py
entry_vars == << analysis, last_signals, scan >>

\* auto_improve.py
improve_vars == << improve >>

vars == << prediction_vars, alert_vars, param_vars, entry_vars, improve_vars >>

\* what each module leaves alone
outside_prediction == << alert_vars, param_vars, entry_vars, improve_vars >>

outside_alerts == << prediction_vars, param_vars, entry_vars, improve_vars >>

outside_params == << prediction_vars, alert_vars, entry_vars, improve_vars >>

outside_entry == << prediction_vars, alert_vars, param_vars, improve_vars >>

outside_improve == << prediction_vars, alert_vars, param_vars, entry_vars >>

-----------------------------------------------------------------------------
(* Arithmetic helpers *)

\* Python's builtin min(a, b)
Min(a, b) == IF b < a THEN b ELSE a

\* Python's builtin max(a, b)
Max(a, b) == IF b > a THEN b ELSE a

\* abs(x)
Abs(x) == IF x < 0 THEN -x ELSE x

\* ATR window of generate_verified_prediction: calculate_atr(hist, period=14)
ATR_PERIOD == 14

\* lookback of generate_verified_prediction: calculate_support_resistance(hist, lookback=20)
LOOKBACK == 20

\* minimum number of history rows
MIN_ROWS == 25

\* news[:10]
NEWS_LIMIT == 10

\* money values are held in units of 1/SCALE: 0.98 = 49/50, mean over 14 rows
SCALE == 50 * ATR_PERIOD

\* the value x * 0.98 of a scaled amount x * SCALE, as an exact integer
Times098(x) == x * ((SCALE * 49) \div 50)

\* a ratio num/den, den > 0
Ratio(n, d) == [num |-> n, den |-> d]

\* r < a/b
RatioLt(r, a, b) == r.num * b < a * r.den

\* r >= a/b
RatioGe(r, a, b) == r.num * b >= a * r.den

-----------------------------------------------------------------------------
(* Text *)

\* str.lower() on one character
LowerChar(c) ==
    CASE c = "A" -> "a" [] c = "B" -> "b" [] c = "C" -> "c" [] c = "D" -> "d"
      [] c = "E" -> "e" [] c = "F" -> "f" [] c = "G" -> "g" [] c = "H" -> "h"
      [] c = "I" -> "i" [] c = "J" -> "j" [] c = "K" -> "k" [] c = "L" -> "l"
      [] c = "M" -> "m" [] c = "N" -> "n" [] c = "O" -> "o" [] c = "P" -> "p"
      [] c = "Q" -> "q" [] c = "R" -> "r" [] c = "S" -> "s" [] c = "T" -> "t"
      [] c = "U" -> "u" [] c = "V" -> "v" [] c = "W" -> "w" [] c = "X" -> "x"
      [] c = "Y" -> "y" [] c = "Z" -> "z" [] OTHER -> c

\* str.lower()
Lower(s) == [i \in 1..Len(s) |-> LowerChar(s[i])]

\* k in t
Contains(t, k) ==
    \E i \in 0..(Len(t) - Len(k)) : SubSeq(t, i + 1, i + Len(k)) = k

\* symbol.upper() on the symbols used here
str_upper(s) ==
    CASE s = "nvda" -> "NVDA" [] s = "aapl" -> "AAPL" [] OTHER -> s

-----------------------------------------------------------------------------
(* Module-level tables *)

\* SECTOR_ETFS restricted to the symbols used here, and its DEFAULT
SECTOR_ETFS ==
    [s \in {"NVDA", "AMD", "INTC", "LRCX", "KLAC", "ASML", "AAPL", "DEFAULT"} |->
        CASE s \in {"NVDA", "AMD", "INTC", "LRCX", "KLAC", "ASML"} -> "SMH"
          [] s = "AAPL" -> "XLK"
          [] OTHER -> "SPY"]

get_sector_etf(s) ==
    IF s \in DOMAIN SECTOR_ETFS THEN SECTOR_ETFS[s] ELSE SECTOR_ETFS["DEFAULT"]

\* BEARISH_SENTIMENT_KEYWORDS as the module defines it
InitialKeywords ==
    [s \in {"ASML", "NVDA", "AMD", "LRCX", "KLAC", "_SEMIS"} |->
        CASE s = "ASML" ->
               << <<"e", "u", "v">>,
                  <<"l", "i", "t", "h", "o", "g", "r", "a", "p", "h", "y">>,
                  <<"c", "h", "i", "n", "a", " ", "e", "x", "p", "o", "r", "t">>,
                  <<"e", "x", "p", "o", "r", "t", " ", "r", "e", "s", "t", "r", "i", "c", "t", "i", "o", "n">>,
                  <<"l", "i", "c", "e", "n", "s", "e">> >>
          [] s = "NVDA" ->
               << <<"c", "h", "i", "n", "a", " ", "b", "a", "n">>,
                  <<"e", "x", "p", "o", "r", "t", " ", "c", "o", "n", "t", "r", "o", "l">>,
                  <<"h", "1", "0", "0">>,
                  <<"a", "1", "0", "0">>,
                  <<"c", "h", "i", "p", " ", "b", "a", "n">> >>
          [] s = "AMD" ->
               << <<"c", "h", "i", "n", "a", " ", "r", "e", "s", "t", "r", "i", "c", "t", "i", "o", "n">>,
                  <<"e", "x", "p", "o", "r", "t", " ", "b", "a", "n">> >>
          [] s = "LRCX" ->
               << <<"c", "h", "i", "n", "a">>,
                  <<"e", "x", "p", "o", "r", "t">>,
                  <<"r", "e", "s", "t", "r", "i", "c", "t", "i", "o", "n">>,
                  <<"b", "a", "n">> >>
          [] s = "KLAC" ->
               << <<"c", "h", "i", "n", "a">>,
                  <<"e", "x", "p", "o", "r", "t">>,
                  <<"r", "e", "s", "t", "r", "i", "c", "t", "i", "o", "n">> >>
          [] OTHER ->
               << <<"c", "h", "i", "p", " ", "w", "a", "r">>,
                  <<"s", "e", "m", "i", "c", "o", "n", "d", "u", "c", "t", "o", "r", " ", "r", "e", "s", "t", "r", "i", "c", "t", "i", "o", "n">>,
                  <<"e", "x", "p", "o", "r", "t", " ", "c", "o", "n", "t", "r", "o", "l">> >>]

\* the list literal of check_tier2_sentiment: symbols that also get the _SEMIS keywords
SemiSymbols == {"ASML", "LRCX", "KLAC", "NVDA", "AMD", "INTC", "AVGO", "TSM", "AMAT"}

-----------------------------------------------------------------------------
(* Responses of the data provider.  A fetch either raises or returns a      *)
(* value; a dict is a function whose domain is the set of keys present.     *)

NotFetched == [fetched |-> FALSE]

Raised == [fetched |-> TRUE, raised |-> TRUE]

Returned(v) == [fetched |-> TRUE, raised |-> FALSE, value |-> v]

\* dict.get(key, default)
Get(d, k, default) == IF k \in DOMAIN d THEN d[k] ELSE default

\* the empty dict
EmptyDict == [k \in {} |-> 0]


\* Optional[float]: None is the empty sequence, a number x is <<x>>
None == << >>

Some(x) == << x >>

-----------------------------------------------------------------------------
(* Indicator calculators *)

\* smallest and largest element of a non-empty set of integers
SetMin(S) == CHOOSE x \in S : \A y \in S : x <= y

SetMax(S) == CHOOSE x \in S : \A y \in S : x >= y

\* hist.iloc[-(lookback + 1):-1] as a set of row numbers
\* mutant: the slice hist.iloc[-lookback:], which reads the last row
prior_days_with_last(h, lookback) == (Len(h) - lookback + 1)..Len(h)

prior_days(h, lookback) == (Len(h) - lookback)..(Len(h) - 1)

\* calculate_support_resistance(hist, lookback) -> (support, resistance)
calculate_support_resistance(h, lookback) ==
    IF Len(h) < lookback + 1
    THEN << 0, 0 >>
    ELSE << SetMin({h[i].Low : i \in prior_days(h, lookback)}),
            SetMax({h[i].High : i \in prior_days(h, lookback)}) >>

\* true range of row i >= 2: max(high - low, |high - close.shift(1)|, |low - close.shift(1)|)
TrueRange(h, i) ==
    Max(Max(h[i].High - h[i].Low, Abs(h[i].High - h[i - 1].Close)),
        Abs(h[i].Low - h[i - 1].Close))

RECURSIVE SumTrueRange(_, _, _)
SumTrueRange(h, from, to) ==
    IF from > to THEN 0 ELSE TrueRange(h, from) + SumTrueRange(h, from + 1, to)

\* calculate_atr(hist, period), times SCALE: tr.rolling(window=period).mean().iloc[-1]
calculate_atr(h, period) ==
    IF Len(h) < period + 1
    THEN 0
    ELSE (SCALE * SumTrueRange(h, Len(h) - period + 1, Len(h))) \div period

-----------------------------------------------------------------------------
(* Tier verifiers *)

TierResult(t, n, p, a, r, f) ==
    [tier |-> t, name |-> n, passed |-> p, adjustment |-> a, reason |-> r, flags |-> f]

\* mutant: the except branch of tier 1 penalises instead of failing open
tier1_unavailable_penalised ==
    TierResult(1, "Sector Momentum", FALSE, -25, "Sector data unavailable",
               << "SECTOR_DIVERGENCE", "HIGH_RISK" >>)

\* the except branch of check_tier1_sector_momentum
tier1_unavailable ==
    TierResult(1, "Sector Momentum", TRUE, 0, "Sector data unavailable", << >>)

\* mutant: divergence tested with >= 0.5 and <= -0.3
tier1_divergence_inclusive(stock_change, etf_change) ==
    stock_change >= 50 /\ etf_change <= -30

\* stock_up and sector_down, changes in hundredths of a percent
tier1_divergence(stock_change, etf_change) ==
    stock_change > 50 /\ etf_change < -30

\* check_tier1_sector_momentum(symbol, stock_change); resp is what
\* yf.Ticker(get_sector_etf(symbol)).info did
check_tier1_sector_momentum(sym, stock_change, resp) ==
    IF resp.raised
    THEN tier1_unavailable
    ELSE LET etf_change == Get(resp.value, "regularMarketChangePercent", 0)
             both_up == stock_change > 0 /\ etf_change > 0
             both_down == stock_change < 0 /\ etf_change < 0
         IN  IF tier1_divergence(stock_change, etf_change)
             THEN TierResult(1, "Sector Momentum", FALSE, -25, "HIGH RISK DIVERGENCE",
                             << "SECTOR_DIVERGENCE", "HIGH_RISK" >>)
             ELSE IF both_up
             THEN TierResult(1, "Sector Momentum", TRUE, 5, "Aligned",
                             << "SECTOR_ALIGNED" >>)
             ELSE IF both_down
             THEN TierResult(1, "Sector Momentum", TRUE, 0, "Both weak", << >>)
             ELSE TierResult(1, "Sector Momentum", TRUE, 0, "Mixed",
                             << "MIXED_SIGNALS" >>)

\* keywords of check_tier2_sentiment after the optional extend
tier2_keywords(tbl, sym) ==
    IF sym \in SemiSymbols
    THEN Get(tbl, sym, << >>) \o Get(tbl, "_SEMIS", << >>)
    ELSE Get(tbl, sym, << >>)

\* mutant: the symbol's list is replaced by the _SEMIS keywords instead of extended
keywords_table_replaced(tbl, sym) ==
    IF sym \in SemiSymbols /\ sym \in DOMAIN tbl
    THEN [tbl EXCEPT ![sym] = Get(tbl, "_SEMIS", << >>)]
    ELSE tbl

\* BEARISH_SENTIMENT_KEYWORDS after check_tier2_sentiment(symbol): keywords is the
\* table's own list whenever the symbol has an entry, and extend() changes it in place
keywords_table_after(tbl, sym) ==
    IF sym \in SemiSymbols /\ sym \in DOMAIN tbl
    THEN [tbl EXCEPT ![sym] = @ \o Get(tbl, "_SEMIS", << >>)]
    ELSE tbl

\* the inner loop: some keyword.lower() is in title
title_matches(title, keywords) ==
    \E j \in 1..Len(keywords) : Contains(title, Lower(keywords[j]))

\* article.get("title", "").lower()
article_title(article) == Lower(Get(article, "title", << >>))

\* mutant: every article is scanned, not only news[:10]
scanned_all(articles) == articles

\* news[:10]
scanned(articles) == SubSeq(articles, 1, Min(NEWS_LIMIT, Len(articles)))

\* bearish_headlines is non-empty
has_bearish_headline(articles, keywords) ==
    \E i \in 1..Len(scanned(articles)) :
        title_matches(article_title(scanned(articles)[i]), keywords)

\* check_tier2_sentiment(symbol) given the keywords it derived; resp is what
\* yf.Ticker(symbol).news did (read only when keywords is non-empty)
check_tier2_sentiment(keywords, resp) ==
    IF keywords = << >>
    THEN TierResult(2, "Sentiment Filter", TRUE, 0,
                    "No sentiment concerns for this symbol", << >>)
    ELSE IF resp.raised
    THEN TierResult(2, "Sentiment Filter", TRUE, 0, "News check unavailable", << >>)
    ELSE IF has_bearish_headline(resp.value, keywords)
    THEN TierResult(2, "Sentiment Filter", FALSE, -20, "Bearish news detected",
                    << "BEARISH_NEWS", "SENTIMENT_OVERRIDE" >>)
    ELSE TierResult(2, "Sentiment Filter", TRUE, 0,
                    "No adverse headlines detected", << >>)

\* mutant: the low-volume band ends at <= 0.8
tier3_is_low_inclusive(r) == r.num * 5 <= 4 * r.den

\* volume_ratio < 0.8
tier3_is_low(r) == RatioLt(r, 4, 5)

\* check_tier3_volume_conviction(volume_ratio)
check_tier3_volume_conviction(r) ==
    IF RatioLt(r, 1, 2)
    THEN TierResult(3, "Volume Conviction", FALSE, -30, "VERY LOW volume",
                    << "VERY_LOW_VOLUME", "CONVICTION_CAP_35" >>)
    ELSE IF tier3_is_low(r)
    THEN TierResult(3, "Volume Conviction", FALSE, -20, "LOW volume",
                    << "LOW_VOLUME", "CONVICTION_CAP_45" >>)
    ELSE IF RatioGe(r, 6, 5)
    THEN TierResult(3, "Volume Conviction", TRUE, 10, "STRONG volume",
                    << "STRONG_VOLUME" >>)
    ELSE TierResult(3, "Volume Conviction", TRUE, 0, "Adequate volume", << >>)

\* get_base_probability_from_backtest(rsi, macd_bullish, above_support, volume_ratio, is_friday)
get_base_probability_from_backtest(r, macd_bullish, above_support, volume_ratio, is_friday) ==
    LET rsi_term ==
            IF r = None \/ r = Some(0) THEN 0
            ELSE IF r[1] < 30 THEN 12
            ELSE IF r[1] < 40 THEN 6
            ELSE IF r[1] > 70 THEN -8
            ELSE IF r[1] > 60 THEN -3
            ELSE 0
        macd_term == IF macd_bullish THEN 5 ELSE 0
        support_term == IF above_support THEN 3 ELSE -10
        volume_term ==
            IF RatioGe(volume_ratio, 3, 2) THEN 8
            ELSE IF RatioGe(volume_ratio, 1, 1) THEN 3
            ELSE IF RatioLt(volume_ratio, 4, 5) THEN -10
            ELSE 0
        friday_term == IF is_friday THEN -5 ELSE 0
        base == 50 + rsi_term + macd_term + support_term + volume_term + friday_term
    IN  Max(20, Min(85, base))


-----------------------------------------------------------------------------
(* generate_verified_prediction: values derived from the fetched data *)

\* info.get("currentPrice") or info.get("regularMarketPrice", 0)
price_of(quote) ==
    IF Get(quote, "currentPrice", 0) # 0
    THEN quote["currentPrice"]
    ELSE Get(quote, "regularMarketPrice", 0)

current_price == price_of(info.value)

\* support, resistance = calculate_support_resistance(hist, lookback=20)
support == calculate_support_resistance(hist.value, LOOKBACK)[1]

resistance == calculate_support_resistance(hist.value, LOOKBACK)[2]

\* atr = calculate_atr(hist, period=14), times SCALE
atr == calculate_atr(hist.value, ATR_PERIOD)

\* volume_ratio = current_vol / avg_vol_10d if avg_vol_10d > 0 else 1
volume_ratio ==
    LET current_vol == Get(info.value, "regularMarketVolume", 0)
        avg_vol_10d == Get(info.value, "averageDailyVolume10Day", 1)
    IN  IF avg_vol_10d > 0 THEN Ratio(current_vol, avg_vol_10d) ELSE Ratio(1, 1)

\* macd_hist is not None and macd_hist > 0
macd_bullish == macd_hist # None /\ macd_hist[1] > 0

above_support == current_price > support

\* timestamp.weekday() == 4
is_friday == timestamp.weekday = 4

\* warnings after the morning-settled rule: 0 < minutes_since_open < 60; the text
\* carries the minute count
early_warnings ==
    IF 0 < timestamp.minutes /\ timestamp.minutes < 60
    THEN << "EARLY SESSION: Only " \o ToString(timestamp.minutes) \o "min since open" >>
    ELSE << >>

\* stock_change = info.get("regularMarketChangePercent", 0)
stock_change == Get(info.value, "regularMarketChangePercent", 0)

base_probability ==
    get_base_probability_from_backtest(rsi, macd_bullish, above_support,
                                       volume_ratio, is_friday)

-----------------------------------------------------------------------------
(* generate_verified_prediction: synthesis *)

\* all_flags: the tiers' flags, in tier order
RECURSIVE all_flags_of(_)
all_flags_of(trs) ==
    IF trs = << >> THEN << >> ELSE Head(trs).flags \o all_flags_of(Tail(trs))

\* "HIGH_RISK" in f or "DIVERGENCE" in f, over the flags the tiers produce
is_risk_flag(f) == f \in {"SECTOR_DIVERGENCE", "HIGH_RISK"}

\* warnings.extend([f for f in tr.flags if ...]) over all tiers
risk_warnings(trs) == SelectSeq(all_flags_of(trs), is_risk_flag)

InSeq(x, sq) == \E i \in 1..Len(sq) : sq[i] = x

\* sum(tr.adjustment for tr in tier_results)
RECURSIVE total_adjustment(_)
total_adjustment(trs) ==
    IF trs = << >> THEN 0 ELSE Head(trs).adjustment + total_adjustment(Tail(trs))

\* mutant: the final clamp to [15, 85] is left out
final_probability_unclamped(base, trs) ==
    LET probability == base + total_adjustment(trs)
    IN  IF InSeq("CONVICTION_CAP_35", all_flags_of(trs)) THEN Min(probability, 35)
        ELSE IF InSeq("CONVICTION_CAP_45", all_flags_of(trs)) THEN Min(probability, 45)
        ELSE probability

\* mutant: the final clamp is to [10, 90]
final_probability_wide(base, trs) ==
    Max(10, Min(90, final_probability_unclamped(base, trs)))

\* probability: adjustments, then the tier-3 cap, then the clamp
final_probability(base, trs) ==
    LET probability == base + total_adjustment(trs)
        capped ==
            IF InSeq("CONVICTION_CAP_35", all_flags_of(trs)) THEN Min(probability, 35)
            ELSE IF InSeq("CONVICTION_CAP_45", all_flags_of(trs)) THEN Min(probability, 45)
            ELSE probability
    IN  Max(15, Min(85, capped))

volume_penalty_applied_of(trs) ==
    InSeq("CONVICTION_CAP_35", all_flags_of(trs))
        \/ InSeq("CONVICTION_CAP_45", all_flags_of(trs))

\* mutant: the looser of the two stops is taken
stop_loss_loosest(price, sup, atr_s) == Min(Times098(sup), price * SCALE - atr_s)

\* stop_loss = max(support * 0.98, current_price - atr), times SCALE
stop_loss_of(price, sup, atr_s) == Max(Times098(sup), price * SCALE - atr_s)

\* mutant: the larger of the two targets is taken
target_price_uncapped(entry_s, stop_s, atr_s) ==
    Max(entry_s + (entry_s - stop_s) * 2, entry_s + 2 * atr_s)

\* target_price = min(entry + risk * 2, current_price + 2 * atr), times SCALE
target_price_of(entry_s, stop_s, atr_s) ==
    Min(entry_s + (entry_s - stop_s) * 2, entry_s + 2 * atr_s)

\* mutant: STRONG_BUY only above 70
determine_signal_strict(flags, probability) ==
    IF InSeq("SECTOR_DIVERGENCE", flags) THEN "HIGH_RISK_DIVERGENCE"
    ELSE IF probability > 70 THEN "STRONG_BUY"
    ELSE IF probability >= 55 THEN "BUY"
    ELSE IF probability >= 45 THEN "NEUTRAL"
    ELSE "AVOID"

\* === DETERMINE SIGNAL ===
determine_signal(flags, probability) ==
    IF InSeq("SECTOR_DIVERGENCE", flags) THEN "HIGH_RISK_DIVERGENCE"
    ELSE IF probability >= 70 THEN "STRONG_BUY"
    ELSE IF probability >= 55 THEN "BUY"
    ELSE IF probability >= 45 THEN "NEUTRAL"
    ELSE "AVOID"

\* the VerifiedPrediction built at the end of the try block; timestamp, summary and
\* recommendation (formatted text) are left out
verified_prediction(trs) ==
    LET entry_s == current_price * SCALE
        stop_s == stop_loss_of(current_price, support, atr)
        risk == entry_s - stop_s
        target_s == target_price_of(entry_s, stop_s, atr)
        actual_reward == target_s - entry_s
        probability == final_probability(base_probability, trs)
    IN  [symbol |-> symbol,
         signal |-> determine_signal(all_flags_of(trs), probability),
         probability_of_success |-> probability,
         current_price |-> entry_s,
         support_level |-> support * SCALE,
         resistance_level |-> resistance * SCALE,
         entry_price |-> entry_s,
         target_price |-> target_s,
         stop_loss |-> stop_s,
         atr_14 |-> atr,
         max_target_allowed |-> entry_s + 2 * atr,
         risk_reward_ratio |-> IF risk > 0 THEN Ratio(actual_reward, risk) ELSE Ratio(0, 1),
         position_risk_pct |-> Ratio(risk * 100, entry_s),
         tier_results |-> trs,
         volume_ratio |-> volume_ratio,
         volume_penalty_applied |-> volume_penalty_applied_of(trs),
         warnings |-> early_warnings \o risk_warnings(trs)]

\* _empty_prediction(symbol, reason)
empty_prediction(sym, reason) ==
    [symbol |-> sym,
     signal |-> "AVOID",
     probability_of_success |-> 0,
     current_price |-> 0,
     support_level |-> 0,
     resistance_level |-> 0,
     entry_price |-> 0,
     target_price |-> 0,
     stop_loss |-> 0,
     atr_14 |-> 0,
     max_target_allowed |-> 0,
     risk_reward_ratio |-> Ratio(0, 1),
     position_risk_pct |-> Ratio(0, 1),
     tier_results |-> << >>,
     volume_ratio |-> Ratio(0, 1),
     volume_penalty_applied |-> FALSE,
     warnings |-> << reason >>]

\* no prediction returned yet
NoPrediction == [returned |-> FALSE]

\* mutant: no except clause, the exception reaches the caller
on_exception_propagates(sym) == [pc |-> "raised", pred |-> NoPrediction]

\* except Exception as e: return _empty_prediction(symbol, f"Error: ...")
on_exception(sym) == [pc |-> "done", pred |-> empty_prediction(sym, "Error")]


-----------------------------------------------------------------------------
(* What the outside world can hand to one prediction *)

\* a dict holding the keys of `keys`, each with the value f gives it
DictOf(keys, f) == [k \in keys |-> f[k]]

\* symbols as callers type them
Symbols == {"nvda", "AAPL"}

\* datetime.now(): Monday or Friday, 30 or 90 minutes after the open
Clocks == {[weekday |-> 0, minutes |-> 30], [weekday |-> 4, minutes |-> 90]}

\* one OHLC row
Row(high, low, close) == [High |-> high, Low |-> low, Close |-> close]

\* n rows around 100 with daily range rng; row dip (0: none) has its low at 90
MkHist(n, rng, dip) ==
    [i \in 1..n |-> IF i = dip THEN Row(100 + rng, 90, 100) ELSE Row(100 + rng, 100, 100)]

\* histories of one row too few, flat, ranging, with a low inside the lookback
\* window, and with that low in the last row
Histories ==
    { MkHist(MIN_ROWS - 1, 2, 0), MkHist(MIN_ROWS, 0, 0), MkHist(MIN_ROWS, 2, 0),
      MkHist(MIN_ROWS, 2, MIN_ROWS - LOOKBACK), MkHist(MIN_ROWS, 2, MIN_ROWS) }

HistoryResponses == {Raised} \cup {Returned(h) : h \in Histories}

\* value sets of the quote's fields; Absent stands for a key that is missing
Absent == -1

CurrentPrices == {Absent, 99}

RegularMarketPrices == {Absent, 97}

Volumes == {Absent, 60, 130}

AverageVolumes == {Absent, 0, 100}

ChangePercents == {-100, 60}

\* the quote dict with exactly the keys whose value is not Absent
Quote(cp, rmp, vol, avg, chg) ==
    LET f == [k \in {"currentPrice", "regularMarketPrice", "regularMarketVolume",
                     "averageDailyVolume10Day", "regularMarketChangePercent"} |->
                CASE k = "currentPrice" -> cp
                  [] k = "regularMarketPrice" -> rmp
                  [] k = "regularMarketVolume" -> vol
                  [] k = "averageDailyVolume10Day" -> avg
                  [] OTHER -> chg]
        present == {k \in DOMAIN f :
                      k = "regularMarketChangePercent" \/ f[k] # Absent}
    IN  DictOf(present, f)

InfoResponses ==
    {Raised} \cup
    { Returned(Quote(cp, rmp, vol, avg, chg)) :
        cp \in CurrentPrices, rmp \in RegularMarketPrices, vol \in Volumes,
        avg \in AverageVolumes, chg \in ChangePercents }

RsiValues == {None, Some(25)}

MacdValues == {None, Some(1)}

\* the sector ETF's quote: raises, or carries its daily change
EtfResponses ==
    {Raised} \cup
    { Returned(DictOf({"regularMarketChangePercent"},
                      [k \in {"regularMarketChangePercent"} |-> e])) : e \in {-40, 100} }

\* headlines
TitleChipBan == <<"U", "S", " ", "C", "H", "I", "P", " ", "B", "A", "N">>

TitleExportControl ==
    <<"E", "x", "p", "o", "r", "t", " ", "C", "o", "n", "t", "r", "o", "l", " ",
      "w", "i", "d", "e", "n", "s">>

TitleEarnings ==
    <<"R", "e", "c", "o", "r", "d", " ", "e", "a", "r", "n", "i", "n", "g", "s">>

TitleChipWa == <<"c", "h", "i", "p", " ", "w", "a">>

Article(title) == [k \in {"title"} |-> title]

\* n articles, all about earnings except article pos
NewsList(n, pos, a) == [i \in 1..n |-> IF i = pos THEN a ELSE Article(TitleEarnings)]

NewsResponses ==
    { Raised, Returned(<< >>), Returned(NewsList(1, 1, Article(TitleChipBan))),
      Returned(NewsList(NEWS_LIMIT + 1, NEWS_LIMIT + 1, Article(TitleChipBan))) }

-----------------------------------------------------------------------------
(* alert_system.py: AlertManager instances over one pair of files, and the    *)
(* check_all_alerts coroutines running on them.  A coroutine gives up control *)
(* only at `await asyncio.sleep(0.5)`: get_insider_transactions is declared   *)
(* async but awaits nothing, so awaiting it does not suspend.  remove_alert   *)
(* is left out, so an alert is known by its place in the list; RSI and        *)
(* percent-change alerts are not created here.                                *)

\* the AlertManager inside AlertMonitor, and the get_alert_manager singleton
Instances == {"monitor", "global"}

\* check_all_alerts calls that can be in flight together
Coroutines == {"c1", "c2"}

\* most alerts one manager holds in the model
MaxAlerts == 2

\* dataclass Alert; triggered_at is left out
Alert(id, sym, type, value) ==
    [id |-> id, symbol |-> sym, alert_type |-> type, condition_value |-> value,
     active |-> TRUE, triggered_value |-> None]

\* dataclass TriggeredAlert; triggered_at and message are left out
TriggeredAlert(a, value) ==
    [alert_id |-> a.id, symbol |-> a.symbol, alert_type |-> a.alert_type,
     condition_value |-> a.condition_value, triggered_value |-> value]

\* s[-n:]
LastOf(s, n) == SubSeq(s, Max(1, Len(s) - n + 1), Len(s))

\* mutant: _save keeps the alerts the file holds and the manager does not
save_merging(files, m) ==
    [alerts |-> m.alerts \o
                SelectSeq(files.alerts,
                          LAMBDA a : \A k \in 1..Len(m.alerts) : m.alerts[k].id # a.id),
     triggered |-> LastOf(m.triggered, 100)]

\* AlertManager._save: both files rewritten from the manager's lists
save(files, m) == [alerts |-> m.alerts, triggered |-> LastOf(m.triggered, 100)]

\* the quote and history fetch of one symbol: raises, or returns a quote
QuoteResponses ==
    { Raised, Returned(EmptyDict),
      Returned([k \in {"currentPrice"} |-> 90]),
      Returned([k \in {"regularMarketPrice"} |-> 110]) }

\* InsiderSummary: the two fields check_all_alerts reads
InsiderSummaries ==
    { [buy_count_30d |-> 0, signal |-> "NEUTRAL"],
      [buy_count_30d |-> 2, signal |-> "BULLISH"] }

\* the branch of the symbol loop for one alert: its TriggeredAlert, or None
check_alert(a, price) ==
    IF a.alert_type = "price_above" /\ price >= a.condition_value[1]
    THEN Some(TriggeredAlert(a, Some(price)))
    ELSE IF a.alert_type = "price_below" /\ price <= a.condition_value[1]
    THEN Some(TriggeredAlert(a, Some(price)))
    ELSE None

\* the branch of the insider loop for one alert
check_insider(a, data) ==
    IF data.buy_count_30d > 0 /\ data.signal = "BULLISH"
    THEN Some(TriggeredAlert(a, Some(data.buy_count_30d)))
    ELSE None

\* mutant: the alerts of a symbol are taken whether active or not
symbol_alerts_any(alerts, sym) ==
    SelectSeq([k \in 1..Len(alerts) |-> k], LAMBDA k : alerts[k].symbol = sym)

\* [a for a in self.alerts if a.symbol == symbol and a.active], as places in the list
symbol_alerts(alerts, sym) ==
    SelectSeq([k \in 1..Len(alerts) |-> k],
              LAMBDA k : alerts[k].symbol = sym /\ alerts[k].active)

\* [a for a in self.alerts if a.alert_type == INSIDER_BUYING and a.active]
insider_alerts(alerts) ==
    SelectSeq([k \in 1..Len(alerts) |-> k],
              LAMBDA k : alerts[k].alert_type = "insider_buying" /\ alerts[k].active)

\* the `if triggered:` block over the alerts at `places`; found[k] is the
\* TriggeredAlert of alert k or None; set_value tells whether alert.triggered_value
\* is assigned (the symbol loop does, the insider loop does not)
record_triggered(m, places, found, set_value) ==
    LET hits == SelectSeq(places, LAMBDA k : found[k] # None)
    IN  [m EXCEPT
           !.alerts = [k \in 1..Len(@) |->
                         IF InSeq(k, hits)
                         THEN [@[k] EXCEPT
                                 !.active = FALSE,
                                 !.triggered_value =
                                     IF set_value THEN found[k][1].triggered_value ELSE @]
                         ELSE @[k]],
           !.triggered = @ \o [j \in 1..Len(hits) |-> found[hits[j]][1]]]

\* a coroutine that is not running
IdleCheck ==
    [pc |-> "idle", manager |-> "", symbols |-> << >>, symbol |-> "",
     info |-> EmptyDict, triggered_now |-> << >>]

\* the TriggeredAlert records m2 holds beyond m1
newly_triggered(m1, m2) == SubSeq(m2.triggered, Len(m1.triggered) + 1, Len(m2.triggered))

\* check_all_alerts from where coroutine c stands up to its next
\* `await asyncio.sleep(0.5)` or its return.  q[s] is what the fetches for symbol
\* s do, d[k] what get_insider_transactions returns for insider alert k.  A symbol whose
\* fetch raises is skipped without sleeping.  Gives the manager, the coroutine and
\* the file contents afterwards.
RECURSIVE run_check(_, _, _, _, _)
run_check(files, m, c, q, d) ==
    IF c.symbols = << >>
    THEN LET places == insider_alerts(m.alerts)
             m2 == record_triggered(
                       m, places,
                       [k \in 1..Len(m.alerts) |->
                          IF k \in DOMAIN d THEN check_insider(m.alerts[k], d[k])
                          ELSE None],
                       FALSE)
             triggered_now == c.triggered_now \o newly_triggered(m, m2)
         IN  [m |-> m2,
              c |-> IdleCheck,
              files |-> IF triggered_now # << >> THEN save(files, m2) ELSE files]
    ELSE LET sym == Head(c.symbols)
             rest == [c EXCEPT !.symbols = Tail(@)]
         IN  IF q[sym].raised
             THEN run_check(files, m, rest, q, d)
             ELSE LET price == price_of(q[sym].value)
                      m2 == record_triggered(
                                m, symbol_alerts(m.alerts, sym),
                                [k \in 1..Len(m.alerts) |-> check_alert(m.alerts[k], price)],
                                TRUE)
                  IN  [m |-> m2,
                       c |-> [rest EXCEPT
                                !.pc = "sleep", !.symbol = sym, !.info = q[sym].value,
                                !.triggered_now = @ \o newly_triggered(m, m2)],
                       files |-> files]

AlertsIdle ==
    /\ alert_files = [alerts |-> << >>, triggered |-> << >>]
    /\ managers = [i \in Instances |-> [created |-> FALSE, alerts |-> << >>,
                                        triggered |-> << >>]]
    /\ checks = [c \in Coroutines |-> IdleCheck]

\* AlertManager.__init__: _load reads both files
CreateManager(i) ==
    /\ ~managers[i].created
    /\ managers' = [managers EXCEPT ![i] = [created |-> TRUE,
                                           alerts |-> alert_files.alerts,
                                           triggered |-> alert_files.triggered]]
    /\ UNCHANGED << alert_files, checks >>
    /\ UNCHANGED outside_alerts

\* add_price_alert and add_insider_alert: append and _save.  The id tells alerts
\* apart: who added it and as which.  Alerts are added through the singleton (the
\* alert commands); the monitor's manager only checks.
add_alert(i, sym, type, value) ==
    /\ managers[i].created
    /\ Len(managers[i].alerts) < MaxAlerts
    /\ LET id == [by |-> i, n |-> Len(managers[i].alerts) + 1]
           m == [managers[i] EXCEPT !.alerts = Append(@, Alert(id, sym, type, value))]
       IN  /\ managers' = [managers EXCEPT ![i] = m]
           /\ alert_files' = save(alert_files, m)
    /\ UNCHANGED checks
    /\ UNCHANGED outside_alerts

\* !alert KLAC target 100, !alert KLAC stop 100
AddPriceAlert ==
    \E a \in {<< "KLAC", "above" >>, << "KLAC", "below" >>} :
        add_alert("global", a[1], "price_" \o a[2], Some(100))

\* !alert NVDA stop 100
AddStopAlert == add_alert("global", "NVDA", "price_below", Some(100))

\* !alert KLAC insider
AddInsiderAlert == add_alert("global", "KLAC", "insider_buying", None)

\* the orders in which a set can be iterated
Orders(S) ==
    { sq \in [1..Cardinality(S) -> S] : \A x \in S : \E j \in DOMAIN sq : sq[j] = x }

\* one stretch of check_all_alerts run by coroutine cid from the position c
check_step(cid, c) ==
    /\ \E q \in [{c.symbols[j] : j \in 1..Len(c.symbols)} -> QuoteResponses],
          d \in [{ k \in 1..Len(managers[c.manager].alerts) :
                    InSeq(k, insider_alerts(managers[c.manager].alerts)) }
                    -> InsiderSummaries] :
         LET r == run_check(alert_files, managers[c.manager], c, q, d)
         IN  /\ managers' = [managers EXCEPT ![c.manager] = r.m]
             /\ alert_files' = r.files
             /\ checks' = [checks EXCEPT ![cid] = r.c]
    /\ UNCHANGED outside_alerts

\* a call of check_all_alerts on manager i: symbols = set(a.symbol for a in
\* self.alerts if a.active), then the loop up to its first sleep
StartCheck(cid, i) ==
    /\ checks[cid].pc = "idle"
    /\ managers[i].created
    /\ \E order \in Orders({ managers[i].alerts[k].symbol :
                               k \in { n \in 1..Len(managers[i].alerts) :
                                         managers[i].alerts[n].active } }) :
          check_step(cid, [IdleCheck EXCEPT !.manager = i, !.symbols = order])

\* the sleep of a suspended check_all_alerts is over
ResumeCheck(cid) ==
    /\ checks[cid].pc = "sleep"
    /\ check_step(cid, checks[cid])

\* the singleton manager with two !checkalerts commands that can overlap
NextAlerts ==
    CreateManager("global") \/ AddPriceAlert \/ AddStopAlert \/ AddInsiderAlert
        \/ (\E cid \in Coroutines : StartCheck(cid, "global") \/ ResumeCheck(cid))

\* two managers over the same files, checked one call at a time
NextAlertFiles ==
    (\E i \in Instances : CreateManager(i) \/ StartCheck("c1", i))
        \/ AddPriceAlert \/ AddInsiderAlert \/ ResumeCheck("c1")

-----------------------------------------------------------------------------
(* adaptive_params.py: the AdaptiveParameterManager singleton and its two     *)
(* files.  Percentages and weights are whole numbers; volume_min_ratio and    *)
(* vwap_buffer are counted in tenths (0.8 is 8).  Of a ParameterChange the    *)
(* timestamp, change_percent and reason are left out.                         *)

\* most pending suggestions, most entries of the history, last clock reading
MaxPending == 2

MaxHistory == 2

MaxClock == 1

\* dataclass AdaptiveParameters with its defaults; last_updated "" is None
DefaultParameters ==
    [strong_buy_threshold |-> 85, buy_threshold |-> 70, wait_threshold |-> 50,
     vwap_weight |-> 10, volume_weight |-> 9, overextension_weight |-> 8,
     dilution_weight |-> 8, morning_settled_weight |-> 7, support_weight |-> 7,
     momentum_weight |-> 6, near_support_weight |-> 6, volume_health_weight |-> 5,
     volatility_weight |-> 4,
     overextension_limit |-> 12, volume_min_ratio |-> 8, vwap_buffer |-> 2,
     morning_settle_minutes |-> 60, intraday_range_max |-> 5,
     max_position_percent |-> 20, min_position_percent |-> 2,
     earnings_lockout_days |-> 5, news_pause_threshold |-> 2,
     timeframe_min_alignment |-> 3, stop_loss_buffer |-> 2,
     last_updated |-> None, version |-> 1]

\* dataclass ParameterChange; the id is f"{parameter}_{now:%Y%m%d_%H%M%S}"
ParameterChange(parameter, current, suggested, failures, t) ==
    [id |-> << parameter, t >>, parameter |-> parameter, current_value |-> current,
     suggested_value |-> suggested, based_on_failures |-> failures,
     status |-> "pending", approved_date |-> None]

\* the manager as one value: its three attributes and the two files
manager ==
    [params |-> params, pending_changes |-> pending_changes,
     change_history |-> change_history, files |-> param_files]

\* AdaptiveParameterManager._save
save_params(m) ==
    [m EXCEPT !.files.parameters = Some([parameters |-> m.params,
                                         history |-> LastOf(m.change_history, 50)])]

\* AdaptiveParameterManager._save_pending
save_pending(m) == [m EXCEPT !.files.pending = Some(m.pending_changes)]

\* AdaptiveParameterManager.suggest_change at clock reading t
suggest_change(m, parameter, suggested_value, failures_addressed, t) ==
    LET current_value == Get(m.params, parameter, 0)
        change == ParameterChange(parameter, current_value, suggested_value,
                                  failures_addressed, t)
    IN  save_pending([m EXCEPT !.pending_changes = Append(@, change)])

\* int(x / y) for y > 0: the quotient cut towards zero
int_div(x, y) == IF x >= 0 THEN x \div y ELSE -((-x) \div y)

\* weight_map, in the order of the dict
weight_map ==
    << << <<"v", "w", "a", "p">>,
          "vwap_weight" >>,
       << <<"v", "o", "l", "u", "m", "e">>,
          "volume_weight" >>,
       << <<"o", "v", "e", "r", "e", "x", "t", "e", "n", "d", "e", "d">>,
          "overextension_weight" >>,
       << <<"n", "o", "t", "_", "o", "v", "e", "r", "e", "x", "t", "e", "n", "d", "e", "d">>,
          "overextension_weight" >>,
       << <<"d", "i", "l", "u", "t", "i", "o", "n">>,
          "dilution_weight" >>,
       << <<"m", "o", "r", "n", "i", "n", "g">>,
          "morning_settled_weight" >>,
       << <<"s", "u", "p", "p", "o", "r", "t">>,
          "support_weight" >>,
       << <<"m", "o", "m", "e", "n", "t", "u", "m">>,
          "momentum_weight" >>,
       << <<"v", "o", "l", "a", "t", "i", "l", "i", "t", "y">>,
          "volatility_weight" >> >>

\* the parameter of the first pattern of weight_map found in key.lower(), or None
weight_param(key) ==
    LET hits == SelectSeq(weight_map, LAMBDA e : Contains(Lower(key), e[1]))
    IN  IF hits = << >> THEN None ELSE Some(hits[1][2])

\* word in str(common_failures).lower()
mentions(common_failures, word) ==
    \E i \in 1..Len(common_failures) : Contains(Lower(common_failures[i]), word)

\* audit results handed to generate_suggestions_from_audit
Accuracies == {40, 60}

FailureExtended ==
    <<"C", "h", "a", "s", "e", "d", " ", "O", "V", "E", "R", "E", "X", "T",
      "E", "N", "D", "E", "D", " ", "m", "o", "v", "e">>

FailureVolumeVwap ==
    <<"L", "o", "w", " ", "v", "o", "l", "u", "m", "e", " ", "u", "n", "d",
      "e", "r", " ", "V", "W", "A", "P">>

CommonFailures == { << >>, << FailureExtended >>, << FailureVolumeVwap >> }

KeyOverextended ==
    <<"o", "v", "e", "r", "e", "x", "t", "e", "n", "d", "e", "d">>

KeyNotOverextended ==
    <<"n", "o", "t", "_", "o", "v", "e", "r", "e", "x", "t", "e", "n", "d",
      "e", "d">>

KeyAboveVwap ==
    <<"A", "b", "o", "v", "e", "_", "V", "W", "A", "P">>

KeySector ==
    <<"s", "e", "c", "t", "o", "r", "_", "s", "t", "r", "e", "n", "g", "t",
      "h">>

\* weight_adjustments as the list of its items
WeightAdjustments ==
    { << >>,
      << << KeyOverextended, 4 >>, << KeyNotOverextended, -3 >> >>,
      << << KeyAboveVwap, -5 >>, << KeySector, 4 >>, << KeyOverextended, 1 >> >> }

\* weight_param and mentions on the inputs used here, computed once
WeightKeys == {KeyOverextended, KeyNotOverextended, KeyAboveVwap, KeySector}

WeightParamOf == [key \in WeightKeys |-> weight_param(key)]

FailureWords ==
    { <<"e", "x", "t", "e", "n", "d", "e", "d">>, <<"v", "w", "a", "p">>,
      <<"v", "o", "l", "u", "m", "e">> }

Mentioned == [cf \in CommonFailures |-> [word \in FailureWords |-> mentions(cf, word)]]

\* the suggestion the weight loop makes for one entry of weight_adjustments
weight_suggestion(p, key, adjustment) ==
    LET param_name == WeightParamOf[key]
    IN  IF param_name # None /\ Abs(adjustment) >= 2
        THEN LET current == p[param_name[1]]
                 new_value == Max(1, Min(10, current + int_div(adjustment, 2)))
             IN  IF new_value # current
                 THEN << [parameter |-> param_name[1], value |-> new_value,
                          failures |-> Abs(adjustment)] >>
                 ELSE << >>
        ELSE << >>

RECURSIVE weight_suggestions(_, _)
weight_suggestions(p, weight_adjustments) ==
    IF weight_adjustments = << >> THEN << >>
    ELSE weight_suggestion(p, Head(weight_adjustments)[1], Head(weight_adjustments)[2])
             \o weight_suggestions(p, Tail(weight_adjustments))

\* the suggest_change calls generate_suggestions_from_audit makes, in order; every
\* value is computed from self.params, which the calls do not change
audit_suggestions(p, accuracy, common_failures, weight_adjustments) ==
    (IF accuracy < 50
     THEN << [parameter |-> "strong_buy_threshold",
              value |-> Min(95, p.strong_buy_threshold + 5), failures |-> 5],
             [parameter |-> "buy_threshold",
              value |-> Min(85, p.buy_threshold + 5), failures |-> 5] >>
     ELSE << >>)
    \o weight_suggestions(p, weight_adjustments)
    \o (IF Mentioned[common_failures][<<"e", "x", "t", "e", "n", "d", "e", "d">>]
        THEN << [parameter |-> "overextension_limit",
                 value |-> Max(5, p.overextension_limit - 2), failures |-> 3] >>
        ELSE << >>)
    \o (IF Mentioned[common_failures][<<"v", "w", "a", "p">>]
        THEN << [parameter |-> "vwap_buffer",
                 value |-> Min(10, p.vwap_buffer + 2), failures |-> 3] >>
        ELSE << >>)
    \o (IF Mentioned[common_failures][<<"v", "o", "l", "u", "m", "e">>]
        THEN << [parameter |-> "volume_min_ratio",
                 value |-> Min(12, p.volume_min_ratio + 1), failures |-> 2] >>
        ELSE << >>)

RECURSIVE suggest_each(_, _, _)
suggest_each(m, suggestions, t) ==
    IF suggestions = << >> THEN m
    ELSE suggest_each(suggest_change(m, Head(suggestions).parameter, Head(suggestions).value,
                                     Head(suggestions).failures, t),
                      Tail(suggestions), t)

\* AdaptiveParameterManager.generate_suggestions_from_audit, run within one second
generate_suggestions_from_audit(m, accuracy, common_failures, weight_adjustments, t) ==
    suggest_each(m, audit_suggestions(m.params, accuracy, common_failures,
                                      weight_adjustments), t)

\* s without its element at place j
RemoveAt(s, j) == SubSeq(s, 1, j - 1) \o SubSeq(s, j + 1, Len(s))

\* mutant: the change is applied and the version is left as it was
applied_same_version(p, change, t) ==
    [p EXCEPT ![change.parameter] = change.suggested_value, !.last_updated = Some(t)]

\* approve_change lines 259-261: setattr, last_updated, version += 1
applied(p, change, t) ==
    [p EXCEPT ![change.parameter] = change.suggested_value, !.last_updated = Some(t),
              !.version = @ + 1]

\* AdaptiveParameterManager.approve_change: the first pending change with this id
\* whose parameter is an attribute of params; gives the manager and the return value
approve_change(m, change_id, t) ==
    LET found == SelectSeq([j \in 1..Len(m.pending_changes) |-> j],
                           LAMBDA j : /\ m.pending_changes[j].id = change_id
                                      /\ m.pending_changes[j].parameter \in DOMAIN m.params)
    IN  IF found = << >> THEN [m |-> m, ok |-> FALSE]
        ELSE LET change == m.pending_changes[found[1]]
             IN  [m |-> save_pending(save_params(
                          [m EXCEPT
                             !.params = applied(@, change, t),
                             !.change_history =
                                 Append(@, [change EXCEPT !.status = "approved",
                                                          !.approved_date = Some(t)]),
                             !.pending_changes = RemoveAt(@, found[1])])),
                  ok |-> TRUE]

\* AdaptiveParameterManager.reject_change
reject_change(m, change_id) ==
    LET found == SelectSeq([j \in 1..Len(m.pending_changes) |-> j],
                           LAMBDA j : m.pending_changes[j].id = change_id)
    IN  IF found = << >> THEN [m |-> m, ok |-> FALSE]
        ELSE LET change == m.pending_changes[found[1]]
             IN  [m |-> save_pending(save_params(
                          [m EXCEPT
                             !.change_history =
                                 Append(@, [change EXCEPT !.status = "rejected"]),
                             !.pending_changes = RemoveAt(@, found[1])])),
                  ok |-> TRUE]

\* approve_all: approve_change for the id of each change of list(self.pending_changes)
RECURSIVE approve_all(_, _, _)
approve_all(m, changes, t) ==
    IF changes = << >> THEN m
    ELSE approve_all(approve_change(m, Head(changes).id, t).m, Tail(changes), t)

\* reject_all
RECURSIVE reject_all(_, _)
reject_all(m, changes) ==
    IF changes = << >> THEN m
    ELSE reject_all(reject_change(m, Head(changes).id).m, Tail(changes))

\* the ids a user can type: those of the suggestions made so far, and one of none
ChangeIds ==
    { pending_changes[j].id : j \in 1..Len(pending_changes) }
        \cup { << "buy_threshold", MaxClock + 1 >> }

ParamsIdle ==
    /\ params = DefaultParameters
    /\ pending_changes = << >>
    /\ change_history = << >>
    /\ param_files = [parameters |-> None, pending |-> None]
    /\ now = 0

\* the manager's attributes and files become those of m
becomes(m) ==
    /\ params' = m.params
    /\ pending_changes' = m.pending_changes
    /\ change_history' = m.change_history
    /\ param_files' = m.files

\* a second passes
Tick ==
    /\ now < MaxClock
    /\ now' = now + 1
    /\ UNCHANGED << params, pending_changes, change_history, param_files >>
    /\ UNCHANGED outside_params

\* !learn and the scheduler's audit
GenerateSuggestions ==
    /\ \E accuracy \in Accuracies, cf \in CommonFailures, wa \in WeightAdjustments :
          LET m == generate_suggestions_from_audit(manager, accuracy, cf, wa, now)
          IN  /\ Len(m.pending_changes) <= MaxPending
              /\ becomes(m)
    /\ UNCHANGED now
    /\ UNCHANGED outside_params

\* !approve ID
ApproveChange ==
    /\ Len(change_history) < MaxHistory
    /\ \E id \in ChangeIds : becomes(approve_change(manager, id, now).m)
    /\ UNCHANGED now
    /\ UNCHANGED outside_params

\* !reject ID
RejectChange ==
    /\ Len(change_history) < MaxHistory
    /\ \E id \in ChangeIds : becomes(reject_change(manager, id).m)
    /\ UNCHANGED now
    /\ UNCHANGED outside_params

\* !approveall
ApproveAll ==
    /\ Len(change_history) + Len(pending_changes) <= MaxHistory
    /\ becomes(approve_all(manager, pending_changes, now))
    /\ UNCHANGED now
    /\ UNCHANGED outside_params

\* !rejectall
RejectAll ==
    /\ Len(change_history) + Len(pending_changes) <= MaxHistory
    /\ becomes(reject_all(manager, pending_changes))
    /\ UNCHANGED now
    /\ UNCHANGED outside_params

NextParams ==
    Tick \/ GenerateSuggestions \/ ApproveChange \/ RejectChange \/ ApproveAll \/ RejectAll

-----------------------------------------------------------------------------
(* entry_signals.py: EntrySignalAnalyzer.analyze_entry from the outcome of    *)
(* its ten comparisons on, and EntrySignalMonitor.scan_and_alert.  The prices *)
(* and texts of an EntryAnalysis are left out.                                *)

\* the conditions analyze_entry appends, in order, with the weights it writes
ENTRY_CONDITIONS ==
    << [name |-> "VWAP Position", weight |-> 10],
       [name |-> "Volume Confirmation", weight |-> 9],
       [name |-> "Not Overextended", weight |-> 8],
       [name |-> "No Dilution Risk", weight |-> 8],
       [name |-> "Morning Settled", weight |-> 7],
       [name |-> "Above Support", weight |-> 7],
       [name |-> "Positive Momentum", weight |-> 6],
       [name |-> "Near Support", weight |-> 6],
       [name |-> "Volume Healthy", weight |-> 5],
       [name |-> "Controlled Volatility", weight |-> 4] >>

\* sum(c.weight for c in conditions[from:] if keep(c))
RECURSIVE weight_sum(_, _, _)
weight_sum(conditions, from, only_passed) ==
    IF from > Len(conditions) THEN 0
    ELSE (IF only_passed /\ ~conditions[from].passed THEN 0 ELSE conditions[from].weight)
             + weight_sum(conditions, from + 1, only_passed)

\* confidence = int((passed_weight / total_weight) * 100)
entry_confidence(conditions) ==
    (weight_sum(conditions, 1, TRUE) * 100) \div weight_sum(conditions, 1, FALSE)

\* critical_passed = sum([vwap_passed, volume_passed, not_overextended, no_dilution])
critical_passed_of(conditions) ==
    Cardinality({ i \in 1..4 : conditions[i].passed })

\* analyze_entry lines 254-261: the signal from confidence and critical conditions
entry_signal(confidence, critical_passed) ==
    IF confidence >= 85 /\ critical_passed = 4 THEN "strong_buy"
    ELSE IF confidence >= 70 /\ critical_passed >= 3 THEN "buy"
    ELSE IF confidence >= 50 THEN "wait"
    ELSE "no_entry"

\* EntrySignalAnalyzer.analyze_entry; data is None when intraday or historical is
\* missing, else the names of the conditions whose comparison came out true
analyze_entry(sym, data) ==
    IF data = None
    THEN [symbol |-> sym, signal |-> "no_entry", confidence |-> 0, conditions |-> << >>]
    ELSE LET conditions ==
                 [i \in 1..Len(ENTRY_CONDITIONS) |->
                    [name |-> ENTRY_CONDITIONS[i].name,
                     passed |-> ENTRY_CONDITIONS[i].name \in data[1],
                     weight |-> ENTRY_CONDITIONS[i].weight]]
             confidence == entry_confidence(conditions)
         IN  [symbol |-> sym,
              signal |-> entry_signal(confidence, critical_passed_of(conditions)),
              confidence |-> confidence,
              conditions |-> conditions]

ConditionNames == { ENTRY_CONDITIONS[i].name : i \in 1..Len(ENTRY_CONDITIONS) }

\* what the fetches of one analyze_entry lead to: an exception, no market data, or
\* the conditions that pass (confidence 100, 87, 80, 88 with dilution, 50, 0)
EntryResponses ==
    { Raised, Returned(None),
      Returned(Some(ConditionNames)),
      Returned(Some(ConditionNames \ {"Volume Healthy", "Controlled Volatility"})),
      Returned(Some(ConditionNames \ {"Morning Settled", "Above Support"})),
      Returned(Some(ConditionNames \ {"No Dilution Risk"})),
      Returned(Some({"VWAP Position", "Volume Confirmation", "Not Overextended",
                     "No Dilution Risk"})),
      Returned(Some({})) }

\* get_permanent_symbols(): the first two of DEFAULT_PERMANENT_WATCHLIST
PermanentSymbols == << "LRCX", "KLAC" >>

\* results.append(analysis) for the symbols whose analysis does not raise
RECURSIVE scan_for_entries(_, _)
scan_for_entries(symbols, responses) ==
    IF symbols = << >> THEN << >>
    ELSE (IF responses[Head(symbols)].raised THEN << >>
          ELSE << analyze_entry(Head(symbols), responses[Head(symbols)].value) >>)
             \o scan_for_entries(Tail(symbols), responses)

\* results.sort(key=lambda x: x.confidence, reverse=True): stable, highest first
RECURSIVE sorted_by_confidence(_)
sorted_by_confidence(results) ==
    IF results = << >> THEN << >>
    ELSE LET top == CHOOSE i \in 1..Len(results) :
                        /\ \A j \in 1..Len(results) :
                              results[j].confidence <= results[i].confidence
                        /\ \A j \in 1..(i - 1) :
                              results[j].confidence < results[i].confidence
         IN  << results[top] >>
                 \o sorted_by_confidence(SubSeq(results, 1, top - 1)
                                             \o SubSeq(results, top + 1, Len(results)))

\* the loop over actionable of scan_and_alert: the symbols whose message is sent,
\* in order, and _last_signals afterwards
RECURSIVE alert_each(_, _, _)
alert_each(actionable, last, sent) ==
    IF actionable = << >> THEN [last_signals |-> last, sent |-> sent]
    ELSE LET a == Head(actionable)
             prev_signal == Get(last, a.symbol, "none")
         IN  IF a.signal = "strong_buy" \/ prev_signal # a.signal
             THEN alert_each(Tail(actionable),
                             [k \in DOMAIN last \cup {a.symbol} |->
                                IF k = a.symbol THEN a.signal ELSE last[k]],
                             Append(sent, a.symbol))
             ELSE alert_each(Tail(actionable), last, sent)

\* the signal of each symbol in a list of results; "none" for a symbol without one
signals_of(results) ==
    [k \in { PermanentSymbols[i] : i \in 1..Len(PermanentSymbols) } |->
        IF \E j \in 1..Len(results) : results[j].symbol = k
        THEN (CHOOSE r \in { results[j] : j \in 1..Len(results) } : r.symbol = k).signal
        ELSE "none"]

EntryIdle ==
    /\ analysis = None
    /\ last_signals = EmptyDict
    /\ scan = [previous |-> signals_of(<< >>), signals |-> signals_of(<< >>),
               sent |-> << >>]

\* a call of analyze_entry that returns (!entry, the schedulers)
AnalyzeEntry ==
    /\ \E sym \in { PermanentSymbols[i] : i \in 1..Len(PermanentSymbols) },
          resp \in EntryResponses \ {Raised} :
          analysis' = Some(analyze_entry(sym, resp.value))
    /\ UNCHANGED << last_signals, scan >>
    /\ UNCHANGED outside_entry

\* EntrySignalMonitor.scan_and_alert
ScanAndAlert ==
    /\ \E responses \in [{ PermanentSymbols[i] : i \in 1..Len(PermanentSymbols) }
                            -> EntryResponses] :
          LET results == sorted_by_confidence(scan_for_entries(PermanentSymbols, responses))
              actionable == SelectSeq(results, LAMBDA r : r.signal \in {"strong_buy", "buy"})
              after == alert_each(actionable, last_signals, << >>)
          IN  /\ last_signals' = after.last_signals
              /\ scan' = [previous |-> scan.signals, signals |-> signals_of(results),
                          sent |-> after.sent]
    /\ UNCHANGED analysis
    /\ UNCHANGED outside_entry

\* the parameter workflow next to the analyses it is meant to steer
NextTrading == GenerateSuggestions \/ ApproveChange \/ AnalyzeEntry

NextScans == ScanAndAlert

-----------------------------------------------------------------------------
(* auto_improve.py: AutoImproveSystem.  Percentages and weights are whole     *)
(* numbers; volume_min_ratio and vwap_min_above_percent are counted in tenths. *)
(* Of an ImprovementSuggestion the texts and dates are left out.              *)

\* dataclass TradingConfig with its defaults
DefaultConfig ==
    [strong_buy_threshold |-> 85, buy_threshold |-> 70, min_confidence_for_entry |-> 60,
     vwap_weight |-> 10, volume_weight |-> 9, overextension_weight |-> 8,
     dilution_weight |-> 8, morning_rule_weight |-> 7, support_weight |-> 7,
     momentum_weight |-> 6, near_support_weight |-> 6, volume_health_weight |-> 5,
     volatility_weight |-> 4,
     overextension_max_percent |-> 12, volume_min_ratio |-> 8,
     vwap_min_above_percent |-> 2,
     max_position_percent |-> 20, min_position_percent |-> 2,
     base_position_percent |-> 10,
     default_stop_loss_percent |-> 5, tight_stop_loss_percent |-> 3,
     wide_stop_loss_percent |-> 8,
     earnings_lockout_days |-> 5, sector_crowding_threshold |-> 3]

\* dataclass ImprovementSuggestion; the id is f"{prefix}_{now:%Y%m%d%H%M%S}"
ImprovementSuggestion(prefix, parameter, current, suggested, t) ==
    [id |-> << prefix, t >>, parameter |-> parameter, current_value |-> current,
     suggested_value |-> suggested, status |-> "pending"]

\* param_map, in the order of the dict
param_map ==
    << << <<"v", "w", "a", "p">>,
          "vwap_weight" >>,
       << <<"v", "w", "a", "p", "_", "p", "o", "s", "i", "t", "i", "o", "n">>,
          "vwap_weight" >>,
       << <<"v", "o", "l", "u", "m", "e">>,
          "volume_weight" >>,
       << <<"v", "o", "l", "u", "m", "e", "_", "c", "o", "n", "f", "i", "r", "m", "a", "t", "i", "o", "n">>,
          "volume_weight" >>,
       << <<"o", "v", "e", "r", "e", "x", "t", "e", "n", "d", "e", "d">>,
          "overextension_weight" >>,
       << <<"n", "o", "t", "_", "o", "v", "e", "r", "e", "x", "t", "e", "n", "d", "e", "d">>,
          "overextension_weight" >>,
       << <<"d", "i", "l", "u", "t", "i", "o", "n">>,
          "dilution_weight" >>,
       << <<"m", "o", "r", "n", "i", "n", "g">>,
          "morning_rule_weight" >>,
       << <<"s", "u", "p", "p", "o", "r", "t">>,
          "support_weight" >>,
       << <<"m", "o", "m", "e", "n", "t", "u", "m">>,
          "momentum_weight" >> >>

\* the parameter of the first key of param_map found in condition.lower(), or None
improve_param(condition) ==
    LET hits == SelectSeq(param_map, LAMBDA e : Contains(Lower(condition), e[1]))
    IN  IF hits = << >> THEN None ELSE Some(hits[1][2])

\* improve_param and the substring tests of step 3 on the inputs used here,
\* computed once
ImproveParamOf == [condition \in WeightKeys |-> improve_param(condition)]

FailureStop ==
    <<"S", "t", "o", "p", " ", "l", "o", "s", "s", " ", "h", "i", "t", " ",
      "a", "f", "t", "e", "r", " ", "E", "X", "T", "E", "N", "D", "E", "D",
      " ", "r", "u", "n">>

ImproveFailures == {FailureExtended, FailureVolumeVwap, FailureStop}

ImproveWords == FailureWords \cup { <<"s", "t", "o", "p">> }

FailureMentions ==
    [failure \in ImproveFailures |->
        [word \in ImproveWords |-> Contains(Lower(failure), word)]]

\* step 2 for one item of weight_adjustments
improve_weight_suggestion(config, condition, adjustment, t) ==
    LET param == ImproveParamOf[condition]
    IN  IF param # None /\ Abs(adjustment) >= 2
        THEN LET current == Get(config, param[1], 5)
                 new_value == Max(1, Min(10, current + int_div(adjustment, 2)))
             IN  IF new_value # current
                 THEN << ImprovementSuggestion("weight_" \o param[1], param[1], current,
                                               new_value, t) >>
                 ELSE << >>
        ELSE << >>

RECURSIVE improve_weight_suggestions(_, _, _)
improve_weight_suggestions(config, weight_adjustments, t) ==
    IF weight_adjustments = << >> THEN << >>
    ELSE improve_weight_suggestion(config, Head(weight_adjustments)[1],
                                   Head(weight_adjustments)[2], t)
             \o improve_weight_suggestions(config, Tail(weight_adjustments), t)

\* step 3 for one entry of common_failures
improve_failure_suggestions(config, failure, t) ==
    (IF FailureMentions[failure][<<"e", "x", "t", "e", "n", "d", "e", "d">>]
           /\ config.overextension_max_percent > 8
     THEN << ImprovementSuggestion("ext", "overextension_max_percent",
                                   config.overextension_max_percent, 8, t) >>
     ELSE << >>)
    \o (IF FailureMentions[failure][<<"v", "w", "a", "p">>]
              /\ config.vwap_min_above_percent < 5
        THEN << ImprovementSuggestion("vwap", "vwap_min_above_percent",
                                      config.vwap_min_above_percent, 5, t) >>
        ELSE << >>)
    \o (IF FailureMentions[failure][<<"s", "t", "o", "p">>]
              /\ config.default_stop_loss_percent > 4
        THEN << ImprovementSuggestion("stop", "default_stop_loss_percent",
                                      config.default_stop_loss_percent, 4, t) >>
        ELSE << >>)

RECURSIVE improve_filter_suggestions(_, _, _)
improve_filter_suggestions(config, common_failures, t) ==
    IF common_failures = << >> THEN << >>
    ELSE improve_failure_suggestions(config, Head(common_failures), t)
             \o improve_filter_suggestions(config, Tail(common_failures), t)

\* the list `suggestions` of AutoImproveSystem.generate_suggestions_from_audit
improve_suggestions(config, accuracy, common_failures, weight_adjustments, t) ==
    (IF accuracy < 50
     THEN << ImprovementSuggestion("conf", "min_confidence_for_entry",
                                   config.min_confidence_for_entry, 80, t) >>
     ELSE IF accuracy < 60
     THEN << ImprovementSuggestion("conf", "buy_threshold", config.buy_threshold, 75, t) >>
     ELSE << >>)
    \o improve_weight_suggestions(config, weight_adjustments, t)
    \o improve_filter_suggestions(config, common_failures, t)
    \o (IF accuracy < 50 /\ config.max_position_percent > 10
        THEN << ImprovementSuggestion("pos", "max_position_percent",
                                      config.max_position_percent, 10, t) >>
        ELSE << >>)

\* mutant: every new suggestion is added
add_to_pending_all(pending, suggestions) == pending \o suggestions

\* lines 293-297: a suggestion is added unless one for its parameter is pending
RECURSIVE add_to_pending(_, _)
add_to_pending(pending, suggestions) ==
    IF suggestions = << >> THEN pending
    ELSE add_to_pending(
             IF \E i \in 1..Len(pending) : pending[i].parameter = Head(suggestions).parameter
             THEN pending
             ELSE Append(pending, Head(suggestions)),
             Tail(suggestions))

\* AutoImproveSystem._save_improvements
save_improvements(m) ==
    [m EXCEPT !.files.pending = Some(m.pending), !.files.history = Some(m.history)]

\* AutoImproveSystem.generate_suggestions_from_audit; returned is its return value
improve_generate(m, accuracy, common_failures, weight_adjustments, t) ==
    LET suggestions == improve_suggestions(m.config, accuracy, common_failures,
                                           weight_adjustments, t)
    IN  save_improvements([m EXCEPT !.pending = add_to_pending(@, suggestions),
                                    !.returned = suggestions])

\* the first pending suggestion with this id and status "pending", as a place, or 0
improve_find(m, suggestion_id) ==
    LET found == SelectSeq([j \in 1..Len(m.pending) |-> j],
                           LAMBDA j : /\ m.pending[j].id = suggestion_id
                                      /\ m.pending[j].status = "pending")
    IN  IF found = << >> THEN 0 ELSE found[1]

\* AutoImproveSystem.approve_suggestion
approve_suggestion(m, suggestion_id) ==
    LET j == improve_find(m, suggestion_id)
    IN  IF j = 0 \/ m.pending[j].parameter \notin DOMAIN m.config THEN m
        ELSE save_improvements(
                 [m EXCEPT
                    !.config = [@ EXCEPT ![m.pending[j].parameter] =
                                             m.pending[j].suggested_value],
                    !.files.config = Some([m.config EXCEPT ![m.pending[j].parameter] =
                                               m.pending[j].suggested_value]),
                    !.pending = RemoveAt(@, j),
                    !.history = Append(@, [m.pending[j] EXCEPT !.status = "applied"])])

\* AutoImproveSystem.reject_suggestion
reject_suggestion(m, suggestion_id) ==
    LET j == improve_find(m, suggestion_id)
    IN  IF j = 0 THEN m
        ELSE save_improvements(
                 [m EXCEPT
                    !.pending = RemoveAt(@, j),
                    !.history = Append(@, [m.pending[j] EXCEPT !.status = "rejected"])])

\* AutoImproveSystem.approve_all_pending over pending_copy
RECURSIVE approve_all_pending(_, _)
approve_all_pending(m, pending_copy) ==
    IF pending_copy = << >> THEN m
    ELSE approve_all_pending(approve_suggestion(m, Head(pending_copy).id),
                             Tail(pending_copy))

\* audit results handed to AutoImproveSystem.generate_suggestions_from_audit
ImproveAccuracies == {40, 55, 60}

ImproveCommonFailures ==
    { << >>, << FailureExtended, FailureStop >>, << FailureVolumeVwap >> }

\* AutoImproveSystem() with none of its three files present
ImproveIdle ==
    improve = [config |-> DefaultConfig, pending |-> << >>, history |-> << >>,
               returned |-> << >>,
               files |-> [config |-> None, pending |-> None, history |-> None]]

ImproveGenerate ==
    /\ \E accuracy \in ImproveAccuracies, cf \in ImproveCommonFailures,
          wa \in WeightAdjustments :
          LET m == improve_generate(improve, accuracy, cf, wa, now)
          IN  /\ Len(m.pending) <= MaxPending
              /\ improve' = m
    /\ UNCHANGED outside_improve

ImproveApprove ==
    /\ Len(improve.history) < MaxHistory
    /\ \E j \in 1..Len(improve.pending) :
          improve' = approve_suggestion(improve, improve.pending[j].id)
    /\ UNCHANGED outside_improve

ImproveReject ==
    /\ Len(improve.history) < MaxHistory
    /\ \E j \in 1..Len(improve.pending) :
          improve' = reject_suggestion(improve, improve.pending[j].id)
    /\ UNCHANGED outside_improve

ImproveApproveAll ==
    /\ Len(improve.history) + Len(improve.pending) <= MaxHistory
    /\ improve' = approve_all_pending(improve, improve.pending)
    /\ UNCHANGED outside_improve

NextImprove ==
    Tick \/ ImproveGenerate \/ ImproveApprove \/ ImproveReject \/ ImproveApproveAll

-----------------------------------------------------------------------------
(* generate_verified_prediction, one action per stretch between two fetches *)

Idle ==
    /\ pc = "idle"
    /\ symbol = ""
    /\ timestamp = [weekday |-> 0, minutes |-> 0]
    /\ hist = NotFetched
    /\ info = NotFetched
    /\ rsi = None
    /\ macd_hist = None
    /\ etf_info = NotFetched
    /\ news = NotFetched
    /\ tier_results = << >>
    /\ pred = NoPrediction
    /\ AlertsIdle
    /\ ParamsIdle
    /\ EntryIdle
    /\ ImproveIdle

Init ==
    /\ Idle
    /\ BEARISH_SENTIMENT_KEYWORDS = InitialKeywords
    /\ call = [fn |-> "none"]
    /\ ret = [returned |-> FALSE]

\* how many times the model lets tier 2 append the _SEMIS keywords to one
\* symbol's list before it stops taking new calls
MaxKeywordRounds == 1

\* no list of the keyword table has outgrown the model
TableWithinBound ==
    \A s \in DOMAIN BEARISH_SENTIMENT_KEYWORDS :
        Len(BEARISH_SENTIMENT_KEYWORDS[s]) <=
            Len(InitialKeywords[s]) + MaxKeywordRounds * Len(InitialKeywords["_SEMIS"])

\* symbol = symbol.upper(); timestamp = datetime.now()
BeginWith(s, clk) ==
    /\ pc = "idle"
    /\ TableWithinBound
    /\ symbol' = str_upper(s)
    /\ timestamp' = clk
    /\ pc' = "history"
    /\ UNCHANGED << BEARISH_SENTIMENT_KEYWORDS, hist, info, rsi, macd_hist, etf_info,
                    news, tier_results, pred, call, ret >>
    /\ UNCHANGED outside_prediction

Begin == \E s \in Symbols, clk \in Clocks : BeginWith(s, clk)

\* hist = ticker.history(...); fewer than 25 rows returns the empty prediction
FetchHistoryWith(resp) ==
    /\ pc = "history"
    /\ hist' = resp
    /\ IF resp.raised
       THEN pc' = on_exception(symbol).pc /\ pred' = on_exception(symbol).pred
       ELSE IF Len(resp.value) < MIN_ROWS
       THEN /\ pc' = "done"
            /\ pred' = empty_prediction(symbol, "Insufficient historical data")
       ELSE pc' = "info" /\ pred' = pred
    /\ UNCHANGED << BEARISH_SENTIMENT_KEYWORDS, symbol, timestamp, info, rsi, macd_hist,
                    etf_info, news, tier_results, call, ret >>
    /\ UNCHANGED outside_prediction

FetchHistory == \E resp \in HistoryResponses : FetchHistoryWith(resp)

\* info = ticker.info; the price check; the indicators (lines 408-446)
\* r and m are what calculate_rsi and calculate_macd give for this history
FetchInfoWith(resp, r, m) ==
    /\ pc = "info"
    /\ info' = resp
    /\ IF resp.raised
       THEN /\ pc' = on_exception(symbol).pc /\ pred' = on_exception(symbol).pred
            /\ UNCHANGED << rsi, macd_hist >>
       ELSE IF current_price' = 0
       THEN /\ pc' = "done"
            /\ pred' = empty_prediction(symbol, "No current price available")
            /\ UNCHANGED << rsi, macd_hist >>
       ELSE /\ pc' = "tier1" /\ pred' = pred
            /\ rsi' = r
            /\ macd_hist' = m
    /\ UNCHANGED << BEARISH_SENTIMENT_KEYWORDS, symbol, timestamp, hist, etf_info, news,
                    tier_results, call, ret >>
    /\ UNCHANGED outside_prediction

FetchInfo ==
    \E resp \in InfoResponses, r \in RsiValues, m \in MacdValues :
        FetchInfoWith(resp, r, m)

\* tier1 = await check_tier1_sector_momentum(symbol, stock_change)
Tier1With(resp) ==
    /\ pc = "tier1"
    /\ etf_info' = resp
    /\ tier_results' =
         Append(tier_results, check_tier1_sector_momentum(symbol, stock_change, resp))
    /\ pc' = "tier2"
    /\ UNCHANGED << BEARISH_SENTIMENT_KEYWORDS, symbol, timestamp, hist, info, rsi,
                    macd_hist, news, pred, call, ret >>
    /\ UNCHANGED outside_prediction

Tier1 == \E resp \in EtfResponses : Tier1With(resp)

\* tier2 = await check_tier2_sentiment(symbol): the news is fetched only when the
\* symbol has keywords
\* mutant: tier 2's result is put in front of tier 1's
Tier2WithPrepended(resp) ==
    /\ pc = "tier2"
    /\ LET keywords == tier2_keywords(BEARISH_SENTIMENT_KEYWORDS, symbol)
       IN  /\ BEARISH_SENTIMENT_KEYWORDS' =
                keywords_table_after(BEARISH_SENTIMENT_KEYWORDS, symbol)
           /\ news' = IF keywords = << >> THEN news ELSE resp
           /\ tier_results' =
                << check_tier2_sentiment(keywords, resp) >> \o tier_results
    /\ pc' = "tier3"
    /\ UNCHANGED << symbol, timestamp, hist, info, rsi, macd_hist, etf_info, pred,
                    call, ret >>
    /\ UNCHANGED outside_prediction

Tier2With(resp) ==
    /\ pc = "tier2"
    /\ LET keywords == tier2_keywords(BEARISH_SENTIMENT_KEYWORDS, symbol)
       IN  /\ BEARISH_SENTIMENT_KEYWORDS' =
                keywords_table_after(BEARISH_SENTIMENT_KEYWORDS, symbol)
           /\ news' = IF keywords = << >> THEN news ELSE resp
           /\ tier_results' =
                Append(tier_results, check_tier2_sentiment(keywords, resp))
    /\ pc' = "tier3"
    /\ UNCHANGED << symbol, timestamp, hist, info, rsi, macd_hist, etf_info, pred,
                    call, ret >>
    /\ UNCHANGED outside_prediction

Tier2 == \E resp \in NewsResponses : Tier2With(resp)

\* tier3 = check_tier3_volume_conviction(volume_ratio) and everything after it,
\* up to the return (lines 459-568)
Finish ==
    /\ pc = "tier3"
    /\ tier_results' = Append(tier_results, check_tier3_volume_conviction(volume_ratio))
    /\ pred' = verified_prediction(tier_results')
    /\ pc' = "done"
    /\ UNCHANGED << BEARISH_SENTIMENT_KEYWORDS, symbol, timestamp, hist, info, rsi,
                    macd_hist, etf_info, news, call, ret >>
    /\ UNCHANGED outside_prediction

\* the caller has taken the prediction: the frame is gone, the module-level table
\* stays as the call left it
ReturnWith(r) ==
    /\ pc = "done"
    /\ pc' = "idle"
    /\ symbol' = ""
    /\ timestamp' = [weekday |-> 0, minutes |-> 0]
    /\ hist' = NotFetched
    /\ info' = NotFetched
    /\ rsi' = None
    /\ macd_hist' = None
    /\ etf_info' = NotFetched
    /\ news' = NotFetched
    /\ tier_results' = << >>
    /\ pred' = NoPrediction
    /\ ret' = r
    /\ UNCHANGED << BEARISH_SENTIMENT_KEYWORDS, call >>
    /\ UNCHANGED outside_prediction

Return == ReturnWith(ret)

Next == Begin \/ FetchHistory \/ FetchInfo \/ Tier1 \/ Tier2 \/ Finish \/ Return

Spec == Init /\ [][Next]_vars

SpecAlerts == Init /\ [][NextAlerts]_vars

SpecAlertFiles == Init /\ [][NextAlertFiles]_vars

SpecParams == Init /\ [][NextParams]_vars

SpecTrading == Init /\ [][NextTrading]_vars

SpecScans == Init /\ [][NextScans]_vars

SpecImprove == Init /\ [][NextImprove]_vars

-----------------------------------------------------------------------------
(* Two calls of generate_verified_prediction in a row for one symbol, the     *)
(* fetches mocked: every fetch of the first call, and every fetch of the      *)
(* second, answers what `call` holds.  The second call sees the history       *)
(* call.hist2, which is call.hist or differs from it in the last row only.    *)

\* the clock of a call: Monday or Friday, 30, 31 or 90 minutes after the open
TwiceClocks == Clocks \cup {[weekday |-> 0, minutes |-> 31]}

\* the history itself, and the same history after the current day's bar has moved:
\* its High 4 points higher, or its Low 4 points lower
LastRowVariants(h) ==
    LET last == h[Len(h)]
    IN  { h, [h EXCEPT ![Len(h)] = Row(last.High + 4, last.Low, last.Close)],
          [h EXCEPT ![Len(h)] = Row(last.High, last.Low - 4, last.Close)] }

\* mocked history responses: raising, one row too few, and enough rows; a raising
\* fetch raises again
TwiceHistories ==
    { << Raised, Raised >> } \cup
    { << Returned(MkHist(MIN_ROWS - 1, 2, 0)), Returned(MkHist(MIN_ROWS - 1, 2, 0)) >> }
        \cup
    { << Returned(MkHist(MIN_ROWS, 2, MIN_ROWS - LOOKBACK)), Returned(h2) >> :
        h2 \in LastRowVariants(MkHist(MIN_ROWS, 2, MIN_ROWS - LOOKBACK)) }

\* mocked quotes
TwiceInfos ==
    { Raised, Returned(Quote(Absent, Absent, 60, 100, -100)),
      Returned(Quote(99, Absent, 130, 100, 60)), Returned(Quote(99, 97, 60, 100, 60)) }

TwiceCalls ==
    { [fn |-> "generate_verified_prediction", symbol |-> s, hist |-> hh[1],
       hist2 |-> hh[2], info |-> i, rsi |-> r, macd_hist |-> m, etf_info |-> e,
       news |-> n] :
        s \in Symbols, hh \in TwiceHistories, i \in TwiceInfos, r \in RsiValues,
        m \in MacdValues, e \in EtfResponses, n \in NewsResponses }

InitTwice ==
    /\ Idle
    /\ BEARISH_SENTIMENT_KEYWORDS = InitialKeywords
    /\ call \in TwiceCalls
    /\ ret = [returned |-> FALSE]

TwiceBegin == \E clk \in TwiceClocks : BeginWith(call.symbol, clk)

TwiceFetchHistory ==
    FetchHistoryWith(IF ret.returned THEN call.hist2 ELSE call.hist)

TwiceFetchInfo == FetchInfoWith(call.info, call.rsi, call.macd_hist)

TwiceTier1 == Tier1With(call.etf_info)

TwiceTier2 == Tier2With(call.news)

\* the first call returns: its prediction and its clock are kept for comparison
TwiceReturn ==
    /\ ~ret.returned
    /\ ReturnWith([returned |-> TRUE, value |-> pred, timestamp |-> timestamp])

NextTwice ==
    TwiceBegin \/ TwiceFetchHistory \/ TwiceFetchInfo \/ TwiceTier1 \/ TwiceTier2
        \/ Finish \/ TwiceReturn

SpecTwice == InitTwice /\ [][NextTwice]_vars

-----------------------------------------------------------------------------
(* The verifiers and calculators called directly, on argument sets that hold *)
(* the boundary values                                                       *)

\* largest volume ratio tried, in hundredths
MaxRatioPct == 150

\* longest news list tried
MaxNews == 12

\* longest price history tried by the support/resistance calls
MaxRows == 22

\* how many earlier tier-2 calls for the same symbol the table may have seen
MaxPriorCalls == 1

Tier3Calls ==
    { [fn |-> "check_tier3_volume_conviction", volume_ratio |-> Ratio(n, 100)] :
        n \in 0..MaxRatioPct }

ChangeValues == {-100, -31, -30, -1, 0, 1, 50, 51, 100}

Tier1Calls ==
    { [fn |-> "check_tier1_sector_momentum", symbol |-> "NVDA", stock_change |-> sc,
       resp |-> r] :
        sc \in ChangeValues,
        r \in {Raised, Returned(EmptyDict)} \cup
              { Returned([k \in {"regularMarketChangePercent"} |-> e]) :
                  e \in ChangeValues } }

Articles ==
    { EmptyDict, Article(TitleChipBan), Article(TitleExportControl),
      Article(TitleEarnings), Article(TitleChipWa), Article(<< >>) }

Tier2Calls ==
    { [fn |-> "check_tier2_sentiment", symbol |-> sym, resp |-> r] :
        sym \in {"NVDA", "INTC", "LRCX", "AAPL"},
        r \in {Raised} \cup
              { Returned(NewsList(n, pos, a)) :
                  n \in 0..MaxNews, pos \in 1..MaxNews, a \in Articles } }

\* n rows Low 100 / High 102; row dip has Low 90, row peak has High 110 (0: no such row)
MkSeries(n, dip, peak) ==
    [i \in 1..n |-> Row(IF i = peak THEN 110 ELSE 102, IF i = dip THEN 90 ELSE 100, 101)]

SupportResistanceCalls ==
    { [fn |-> "calculate_support_resistance", hist |-> MkSeries(n, dip, peak),
       lookback |-> lb] :
        n \in 0..MaxRows, dip \in 0..MaxRows, peak \in 0..MaxRows,
        lb \in {1, 3, LOOKBACK} }

\* RSI readings around the band edges 30, 40, 60 and 70; None when unavailable
RsiReadings == {None} \cup {Some(x) : x \in {0, 1, 29, 30, 39, 40, 60, 61, 70, 71, 100}}

\* volume ratios, in hundredths, around the band edges 0.8, 1.0 and 1.5
BaseRatioPcts == {0, 79, 80, 99, 100, 149, 150, 300}

BaseProbabilityCalls ==
    { [fn |-> "get_base_probability_from_backtest", rsi |-> r, macd_bullish |-> m,
       above_support |-> a, volume_ratio |-> Ratio(n, 100), is_friday |-> f] :
        r \in RsiReadings, m \in BOOLEAN, a \in BOOLEAN, n \in BaseRatioPcts,
        f \in BOOLEAN }

\* refined_targets.py, calculate_refined_target: TIME-DECAY CALIBRATION. Targets are
\* carried times CAP_SCALE and the SOXX growth rate in whole percent, so that
\* current_price * (1 + soxx_growth * 1.5) is current_price * (CAP_SCALE + 3 * pct)
\* and current_price * (1 + soxx_growth * 2.0) is current_price * (CAP_SCALE + 4 * pct)
CAP_SCALE == 200

time_decay_calibration(adjusted_target, price, soxx_pct, eps_override) ==
    LET max_allowed_target == price * (CAP_SCALE + 3 * soxx_pct)
        override_target == price * (CAP_SCALE + 4 * soxx_pct)
    IN  IF adjusted_target > max_allowed_target
        THEN IF eps_override
             THEN IF adjusted_target > override_target
                  THEN [adjusted_target |-> override_target, soxx_cap_applied |-> TRUE]
                  ELSE [adjusted_target |-> adjusted_target, soxx_cap_applied |-> FALSE]
             ELSE [adjusted_target |-> max_allowed_target, soxx_cap_applied |-> TRUE]
        ELSE [adjusted_target |-> adjusted_target, soxx_cap_applied |-> FALSE]

\* 6-month SOXX growth rates in percent: a falling, a flat and a rising index
SoxxGrowthPcts == {-20, -10, 0, 10, 20}

\* targets after the geopolitical haircut, around a current price of 100
AdjustedTargets == {70, 80, 85, 90, 100, 115, 120, 130, 150}

TimeDecayCalls ==
    { [fn |-> "time_decay_calibration", adjusted_target |-> t * CAP_SCALE,
       current_price |-> 100, soxx_growth |-> g, eps_override |-> e] :
        t \in AdjustedTargets, g \in SoxxGrowthPcts, e \in BOOLEAN }

\* the keyword table after k tier-2 calls for sym
RECURSIVE KeywordsAfterCalls(_, _)
KeywordsAfterCalls(sym, k) ==
    IF k = 0 THEN InitialKeywords
    ELSE keywords_table_after(KeywordsAfterCalls(sym, k - 1), sym)

InitFn ==
    /\ Idle
    /\ call \in Tier1Calls \cup Tier2Calls \cup Tier3Calls \cup SupportResistanceCalls
                \cup BaseProbabilityCalls \cup TimeDecayCalls
    /\ ret = [returned |-> FALSE]
    /\ IF call.fn = "check_tier2_sentiment"
       THEN \E k \in 0..MaxPriorCalls :
                BEARISH_SENTIMENT_KEYWORDS = KeywordsAfterCalls(call.symbol, k)
       ELSE BEARISH_SENTIMENT_KEYWORDS = InitialKeywords

ReturnValue(v) == [returned |-> TRUE, value |-> v]

CallTier1 ==
    /\ call.fn = "check_tier1_sector_momentum" /\ ~ret.returned
    /\ ret' = ReturnValue(check_tier1_sector_momentum(call.symbol, call.stock_change,
                                                      call.resp))
    /\ UNCHANGED << pc, BEARISH_SENTIMENT_KEYWORDS, symbol, timestamp, hist, info, rsi,
                    macd_hist, etf_info, news, tier_results, pred, call >>
    /\ UNCHANGED outside_prediction

CallTier2 ==
    /\ call.fn = "check_tier2_sentiment" /\ ~ret.returned
    /\ ret' = ReturnValue(check_tier2_sentiment(
                  tier2_keywords(BEARISH_SENTIMENT_KEYWORDS, call.symbol), call.resp))
    /\ BEARISH_SENTIMENT_KEYWORDS' =
         keywords_table_after(BEARISH_SENTIMENT_KEYWORDS, call.symbol)
    /\ UNCHANGED << pc, symbol, timestamp, hist, info, rsi, macd_hist, etf_info, news,
                    tier_results, pred, call >>
    /\ UNCHANGED outside_prediction

CallTier3 ==
    /\ call.fn = "check_tier3_volume_conviction" /\ ~ret.returned
    /\ ret' = ReturnValue(check_tier3_volume_conviction(call.volume_ratio))
    /\ UNCHANGED << pc, BEARISH_SENTIMENT_KEYWORDS, symbol, timestamp, hist, info, rsi,
                    macd_hist, etf_info, news, tier_results, pred, call >>
    /\ UNCHANGED outside_prediction

CallSupportResistance ==
    /\ call.fn = "calculate_support_resistance" /\ ~ret.returned
    /\ ret' = ReturnValue(calculate_support_resistance(call.hist, call.lookback))
    /\ UNCHANGED << pc, BEARISH_SENTIMENT_KEYWORDS, symbol, timestamp, hist, info, rsi,
                    macd_hist, etf_info, news, tier_results, pred, call >>
    /\ UNCHANGED outside_prediction

CallBaseProbability ==
    /\ call.fn = "get_base_probability_from_backtest" /\ ~ret.returned
    /\ ret' = ReturnValue(get_base_probability_from_backtest(
                  call.rsi, call.macd_bullish, call.above_support, call.volume_ratio,
                  call.is_friday))
    /\ UNCHANGED << pc, BEARISH_SENTIMENT_KEYWORDS, symbol, timestamp, hist, info, rsi,
                    macd_hist, etf_info, news, tier_results, pred, call >>
    /\ UNCHANGED outside_prediction

CallTimeDecay ==
    /\ call.fn = "time_decay_calibration" /\ ~ret.returned
    /\ ret' = ReturnValue(time_decay_calibration(
                  call.adjusted_target, call.current_price, call.soxx_growth,
                  call.eps_override))
    /\ UNCHANGED << pc, BEARISH_SENTIMENT_KEYWORDS, symbol, timestamp, hist, info, rsi,
                    macd_hist, etf_info, news, tier_results, pred, call >>
    /\ UNCHANGED outside_prediction

NextFn ==
    \/ CallTier1 \/ CallTier2 \/ CallTier3 \/ CallSupportResistance
    \/ CallBaseProbability \/ CallTimeDecay

SpecFn == InitFn /\ [][NextFn]_vars


-----------------------------------------------------------------------------
(* Properties of the direct calls (SpecFn) *)

HasFlag(t, f) == InSeq(f, t.flags)

Clamp(lo, hi, p) == IF p < lo THEN lo ELSE IF p > hi THEN hi ELSE p

\* C3: check_tier3_volume_conviction maps every volume ratio r to exactly one row:
\* r < 0.5 gives FAIL, -30, cap 35; 0.5 <= r < 0.8 gives FAIL, -20, cap 45;
\* 0.8 <= r < 1.2 gives PASS, 0, no cap; r >= 1.2 gives PASS, +10, no cap.
\* The ratios tried are n/100, so 0.79, 0.80, 1.19 and 1.20 are n = 79, 80, 119, 120.
C3_Tier3Table ==
    (call.fn = "check_tier3_volume_conviction" /\ ret.returned) =>
        LET n == call.volume_ratio.num
            t == ret.value
            cap35 == HasFlag(t, "CONVICTION_CAP_35")
            cap45 == HasFlag(t, "CONVICTION_CAP_45")
        IN  /\ call.volume_ratio.den = 100
            /\ t.tier = 3
            /\ n < 50 => ~t.passed /\ t.adjustment = -30 /\ cap35 /\ ~cap45
            /\ (50 <= n /\ n < 80) => ~t.passed /\ t.adjustment = -20 /\ cap45 /\ ~cap35
            /\ (80 <= n /\ n < 120) => t.passed /\ t.adjustment = 0 /\ ~cap35 /\ ~cap45
            /\ n >= 120 => t.passed /\ t.adjustment = 10 /\ ~cap35 /\ ~cap45

\* C3 witness: the ratio 0.79 was checked and capped at 45
C3_Witness ==
    /\ call.fn = "check_tier3_volume_conviction" /\ ret.returned
    /\ call.volume_ratio = Ratio(79, 100)
    /\ HasFlag(ret.value, "CONVICTION_CAP_45")

\* the sector change tier 1 read from a quote that was returned
C4_SectorChange == Get(call.resp.value, "regularMarketChangePercent", 0)

\* the rows of the tier-1 table below the divergence row, as C4 states them
C4_LowerRows(sc, ec, t) ==
    LET divergence == sc > 50 /\ ec < -30
        both_up == sc > 0 /\ ec > 0
        both_down == sc < 0 /\ ec < 0
    IN  /\ (~divergence /\ both_up) => t.passed /\ t.adjustment = 5
        /\ (~divergence /\ ~both_up /\ both_down) => t.passed /\ t.adjustment = 0
        /\ (~divergence /\ ~both_up /\ ~both_down) =>
              t.passed /\ t.adjustment = 0 /\ HasFlag(t, "MIXED_SIGNALS")

\* C4 as stated: stock change > +0.5% with sector change < -0.3% gives FAIL, -25 and
\* the flag HIGH_RISK_DIVERGENCE; otherwise both > 0 gives PASS +5; otherwise both < 0
\* gives PASS 0; every other pair gives PASS 0 and the flag MIXED_SIGNALS.
C4_AsStated ==
    (call.fn = "check_tier1_sector_momentum" /\ ret.returned /\ ~call.resp.raised) =>
        LET sc == call.stock_change
            ec == C4_SectorChange
            t == ret.value
        IN  /\ (sc > 50 /\ ec < -30) =>
                  ~t.passed /\ t.adjustment = -25 /\ HasFlag(t, "HIGH_RISK_DIVERGENCE")
            /\ C4_LowerRows(sc, ec, t)

\* C4 amended: the same table, where the divergence row carries the two flags
\* SECTOR_DIVERGENCE and HIGH_RISK and no flag named HIGH_RISK_DIVERGENCE.
C4_Tier1Table ==
    (call.fn = "check_tier1_sector_momentum" /\ ret.returned /\ ~call.resp.raised) =>
        LET sc == call.stock_change
            ec == C4_SectorChange
            t == ret.value
        IN  /\ (sc > 50 /\ ec < -30) =>
                  /\ ~t.passed /\ t.adjustment = -25
                  /\ t.flags = << "SECTOR_DIVERGENCE", "HIGH_RISK" >>
            /\ C4_LowerRows(sc, ec, t)

\* C4 witness: tier 1 was called with stock +0.51% against sector -0.31% and failed
C4_Witness ==
    /\ call.fn = "check_tier1_sector_momentum" /\ ret.returned /\ ~call.resp.raised
    /\ call.stock_change = 51 /\ C4_SectorChange = -31
    /\ ~ret.value.passed

\* the denylist of a symbol as the module defines it: its own keywords, and the
\* _SEMIS keywords for the semiconductor symbols
C5_Denylist(sym) ==
    Get(InitialKeywords, sym, << >>)
        \o (IF sym \in SemiSymbols THEN InitialKeywords["_SEMIS"] ELSE << >>)

\* headline i of the fetched list carries a denylisted keyword, ignoring case
C5_HeadlineMatches(heads, i, sym) ==
    \E j \in 1..Len(C5_Denylist(sym)) :
        Contains(Lower(Get(heads[i], "title", << >>)), Lower(C5_Denylist(sym)[j]))

\* C5: check_tier2_sentiment returns FAIL with adjustment -20 if and only if at least
\* one of the first 10 fetched headlines contains, as a case-insensitive substring, a
\* keyword of the symbol's denylist; otherwise (a match only in an 11th or later
\* headline included) it returns PASS with adjustment 0.
C5_Tier2FirstTen ==
    (call.fn = "check_tier2_sentiment" /\ ret.returned) =>
        LET heads == IF call.resp.raised THEN << >> ELSE call.resp.value
            match == \E i \in 1..Len(heads) :
                        i <= 10 /\ C5_HeadlineMatches(heads, i, call.symbol)
            t == ret.value
        IN  /\ match => ~t.passed /\ t.adjustment = -20
            /\ ~match => t.passed /\ t.adjustment = 0

\* C5 witness: eleven headlines, only the eleventh matches, and tier 2 passed
C5_Witness ==
    /\ call.fn = "check_tier2_sentiment" /\ ret.returned /\ ~call.resp.raised
    /\ Len(call.resp.value) = 11
    /\ C5_HeadlineMatches(call.resp.value, 11, call.symbol)
    /\ \A i \in 1..10 : ~C5_HeadlineMatches(call.resp.value, i, call.symbol)
    /\ ret.value.passed /\ ret.value.adjustment = 0

\* C7: calculate_support_resistance(hist, N) returns (0, 0) when hist has fewer than
\* N + 1 rows, and otherwise the minimum Low and the maximum High over exactly the N
\* rows that precede the last row, whatever the last row holds.
C7_PriorRowsOnly ==
    (call.fn = "calculate_support_resistance" /\ ret.returned) =>
        LET h == call.hist
            N == call.lookback
            rows == {i \in 1..Len(h) : Len(h) - N <= i /\ i <= Len(h) - 1}
            sup == ret.value[1]
            res == ret.value[2]
        IN  IF Len(h) < N + 1
            THEN sup = 0 /\ res = 0
            ELSE /\ Cardinality(rows) = N
                 /\ \E i \in rows : h[i].Low = sup
                 /\ \A i \in rows : h[i].Low >= sup
                 /\ \E i \in rows : h[i].High = res
                 /\ \A i \in rows : h[i].High <= res

\* C7 witness: 21 rows, N = 20, the lowest low and the highest high are in row 21,
\* and the result is the low and the high of rows 1..20
C7_Witness ==
    /\ call.fn = "calculate_support_resistance" /\ ret.returned
    /\ Len(call.hist) = 21 /\ call.lookback = 20
    /\ call.hist[21].Low = 90 /\ call.hist[21].High = 110
    /\ ret.value = << 100, 102 >>

\* the five terms of the base probability as C11 states them
C11_RsiTerm(r) ==
    IF r = None THEN 0
    ELSE IF r[1] < 30 THEN 12
    ELSE IF r[1] < 40 THEN 6
    ELSE IF r[1] > 70 THEN -8
    ELSE IF r[1] > 60 THEN -3
    ELSE 0

C11_VolumeTerm(n) ==
    IF n >= 150 THEN 8 ELSE IF n >= 100 THEN 3 ELSE IF n < 80 THEN -10 ELSE 0

\* C11 as stated: get_base_probability_from_backtest returns 50 plus the RSI term
\* (+12 for every RSI below 30, +6 for 30 <= RSI < 40, -8 above 70, -3 for
\* 60 < RSI <= 70, 0 otherwise or when unavailable), +5 for a positive MACD
\* histogram, +3 above support and -10 otherwise, the volume term (+8 for ratio
\* >= 1.5, +3 for 1.0 <= ratio < 1.5, -10 for ratio < 0.8, 0 otherwise) and -5 on
\* Fridays, clamped to [20, 85].
C11_BaseProbabilityAsStated ==
    (call.fn = "get_base_probability_from_backtest" /\ ret.returned) =>
        ret.value =
            Clamp(20, 85,
                  50 + C11_RsiTerm(call.rsi)
                     + (IF call.macd_bullish THEN 5 ELSE 0)
                     + (IF call.above_support THEN 3 ELSE -10)
                     + C11_VolumeTerm(call.volume_ratio.num)
                     + (IF call.is_friday THEN -5 ELSE 0))


\* the call has returned a prediction that went through the three tiers
NonDegraded == pc = "done" /\ pred.tier_results # << >>

\* the tier-3 cap the claims describe, applied to a sum p
CapBy(t3, p) ==
    IF HasFlag(t3, "CONVICTION_CAP_35") THEN Min(p, 35)
    ELSE IF HasFlag(t3, "CONVICTION_CAP_45") THEN Min(p, 45)
    ELSE p

\* C1: for every non-degraded prediction the final probability is base + the sum of
\* the three tier adjustments, then min with 35 or 45 if tier 3 set that cap, then a
\* clamp to [15, 85]; base 60, adjustments [+5, 0, -20] and the 45 cap give 45.
C1_FinalProbability ==
    NonDegraded =>
        LET t == pred.tier_results
            sum == base_probability + t[1].adjustment + t[2].adjustment + t[3].adjustment
        IN  /\ Len(t) = 3
            /\ pred.probability_of_success = Clamp(15, 85, CapBy(t[3], sum))
            /\ ( /\ base_probability = 60
                 /\ << t[1].adjustment, t[2].adjustment, t[3].adjustment >> = << 5, 0, -20 >>
                 /\ HasFlag(t[3], "CONVICTION_CAP_45") )
               => pred.probability_of_success = 45

\* C1 witness: base 60 with adjustments [+5, 0, -20] under the 45 cap was predicted
C1_Witness ==
    /\ NonDegraded
    /\ base_probability = 60
    /\ pred.tier_results[1].adjustment = 5
    /\ pred.tier_results[2].adjustment = 0
    /\ pred.tier_results[3].adjustment = -20
    /\ HasFlag(pred.tier_results[3], "CONVICTION_CAP_45")
    /\ pred.probability_of_success = 45

\* C2: the signal of a non-degraded prediction depends only on the final probability p
\* and tier 1's divergence flag: HIGH_RISK_DIVERGENCE whenever tier 1 flagged
\* divergence; otherwise STRONG_BUY for p >= 70, BUY for 55 <= p < 70, NEUTRAL for
\* 45 <= p < 55 and AVOID for p < 45.
C2_SignalTable ==
    NonDegraded =>
        LET p == pred.probability_of_success
            divergence == HasFlag(pred.tier_results[1], "SECTOR_DIVERGENCE")
        IN  /\ divergence => pred.signal = "HIGH_RISK_DIVERGENCE"
            /\ (~divergence /\ p >= 70) => pred.signal = "STRONG_BUY"
            /\ (~divergence /\ 55 <= p /\ p < 70) => pred.signal = "BUY"
            /\ (~divergence /\ 45 <= p /\ p < 55) => pred.signal = "NEUTRAL"
            /\ (~divergence /\ p < 45) => pred.signal = "AVOID"

\* C2 witness: a prediction whose probability alone would make it a BUY or better
\* carries HIGH_RISK_DIVERGENCE because tier 1 flagged divergence
C2_Witness ==
    /\ NonDegraded
    /\ HasFlag(pred.tier_results[1], "SECTOR_DIVERGENCE")
    /\ pred.probability_of_success >= 55
    /\ pred.signal = "HIGH_RISK_DIVERGENCE"

\* C6: for every current price, support and ATR14 the target of a non-degraded
\* prediction is min(entry + 2 x (entry - stop), entry + 2 x ATR14), so it never
\* exceeds entry + 2 x ATR14.
C6_TargetCappedAt2Atr ==
    NonDegraded =>
        /\ pred.entry_price = current_price * SCALE
        /\ pred.atr_14 = atr
        /\ pred.target_price =
             Min(pred.entry_price + 2 * (pred.entry_price - pred.stop_loss),
                 pred.entry_price + 2 * pred.atr_14)
        /\ pred.target_price <= pred.entry_price + 2 * pred.atr_14

\* C6 witness: a prediction whose 2:1 target lies strictly between the entry and the
\* 2 x ATR cap
C6_Witness ==
    /\ NonDegraded
    /\ pred.atr_14 > 0
    /\ pred.target_price > pred.entry_price
    /\ pred.target_price < pred.entry_price + 2 * pred.atr_14

\* tier i of the prediction passed with adjustment 0 and no flags
FailedOpen(i) ==
    /\ pred.tier_results[i].passed
    /\ pred.tier_results[i].adjustment = 0
    /\ pred.tier_results[i].flags = << >>

\* C8: if the fetch inside tier 1 (sector ETF quote) or tier 2 (headlines) raises,
\* that tier returns PASS with adjustment 0 and no flags, and the pipeline still
\* returns a non-degraded prediction computed from the base probability and the
\* other tiers.
C8_TierFetchFailsOpen ==
    LET etf_raised == etf_info.fetched /\ etf_info.raised
        news_raised == news.fetched /\ news.raised
    IN  (pc = "done" /\ (etf_raised \/ news_raised)) =>
            LET t == pred.tier_results
                others == (IF etf_raised THEN 0 ELSE t[1].adjustment)
                            + (IF news_raised THEN 0 ELSE t[2].adjustment)
                            + t[3].adjustment
            IN  /\ Len(t) = 3
                /\ etf_raised => FailedOpen(1)
                /\ news_raised => FailedOpen(2)
                /\ pred.probability_of_success =
                     Clamp(15, 85, CapBy(t[3], base_probability + others))
                /\ pred.entry_price = current_price * SCALE

\* C8 witness: both fetches raised and the prediction is still a BUY or better
C8_Witness ==
    /\ pc = "done"
    /\ etf_info.fetched /\ etf_info.raised
    /\ news.fetched /\ news.raised
    /\ pred.probability_of_success >= 55
    /\ pred.signal \in {"BUY", "STRONG_BUY"}

\* the quote carries no usable price
NoCurrentPrice ==
    /\ Get(info.value, "currentPrice", 0) = 0
    /\ Get(info.value, "regularMarketPrice", 0) = 0

\* the degraded prediction the claims describe
IsDegraded(reason) ==
    /\ pred.signal = "AVOID"
    /\ pred.probability_of_success = 0
    /\ pred.tier_results = << >>
    /\ pred.warnings = << reason >>

\* C9: generate_verified_prediction never raises to its caller: with fewer than 25
\* history rows, with no current price, or when a step raises, it returns a degraded
\* prediction with signal AVOID, probability 0, an empty tier list and the reason
\* string as its only warning.
C9_NeverRaises ==
    /\ pc \in {"idle", "history", "info", "tier1", "tier2", "tier3", "done"}
    /\ pc = "done" =>
        /\ (hist.fetched /\ hist.raised) => IsDegraded("Error")
        /\ (hist.fetched /\ ~hist.raised /\ Len(hist.value) < 25) =>
              IsDegraded("Insufficient historical data")
        /\ (info.fetched /\ info.raised) => IsDegraded("Error")
        /\ (info.fetched /\ ~info.raised /\ NoCurrentPrice) =>
              IsDegraded("No current price available")

\* C9 witness: the quote fetch raised during the early session and the caller got the
\* degraded prediction whose only warning is the error
C9_Witness ==
    /\ pc = "done"
    /\ info.fetched /\ info.raised
    /\ timestamp.minutes = 30
    /\ pred.signal = "AVOID" /\ pred.warnings = << "Error" >>

\* C10 as stated: when the current volume or the 10-day average volume is missing or
\* zero in the quote, tier 3 passes with adjustment 0 and sets no probability cap.
C10_VolumeFailsOpen ==
    ( /\ NonDegraded
      /\ \/ Get(info.value, "regularMarketVolume", 0) = 0
         \/ Get(info.value, "averageDailyVolume10Day", 0) = 0 )
    => /\ FailedOpen(3)
       /\ ~pred.volume_penalty_applied

\* C15: every prediction returned by generate_verified_prediction has a probability
\* that is exactly 0 when the result is degraded (history fetch raised or too short,
\* quote fetch raised or without price) and between 15 and 85 inclusive when it is
\* not.
C15_ProbabilityRange ==
    pc = "done" =>
        LET degraded ==
                \/ hist.raised
                \/ Len(hist.value) < MIN_ROWS
                \/ info.fetched /\ (info.raised \/ NoCurrentPrice)
        IN  /\ degraded => pred.probability_of_success = 0 /\ pred.tier_results = << >>
            /\ ~degraded =>
                  /\ Len(pred.tier_results) = 3
                  /\ 15 <= pred.probability_of_success
                  /\ pred.probability_of_success <= 85

\* C15 witness: a prediction whose base plus adjustments lies below 15 and whose
\* probability is 15
C15_Witness ==
    /\ NonDegraded
    /\ base_probability + total_adjustment(pred.tier_results) < 15
    /\ pred.probability_of_success = 15

\* the tier numbers of a list of tier results, in order
TierNumbers(trs) == [i \in 1..Len(trs) |-> trs[i].tier]

\* C17: within one prediction the tier checks run strictly one after another in the
\* order 1, 2, 3: tier 2's fetch starts only after tier 1 has returned, tier 3 is
\* evaluated only after tier 2 has returned, and tier_results of a non-degraded
\* prediction is exactly [tier 1, tier 2, tier 3] in that order.
C17_TiersInOrder ==
    /\ pc \in {"idle", "history", "info", "tier1"} =>
          tier_results = << >> /\ ~etf_info.fetched /\ ~news.fetched
    /\ pc = "tier2" => TierNumbers(tier_results) = << 1 >> /\ ~news.fetched
    /\ pc = "tier3" => TierNumbers(tier_results) = << 1, 2 >>
    /\ news.fetched => etf_info.fetched /\ Len(tier_results) >= 2
    /\ NonDegraded =>
          /\ pred.tier_results = tier_results
          /\ TierNumbers(pred.tier_results) = << 1, 2, 3 >>

\* C17 witness: a prediction for which both tier fetches were made, holding the three
\* tier results in order
C17_Witness ==
    /\ NonDegraded
    /\ etf_info.fetched /\ news.fetched
    /\ TierNumbers(pred.tier_results) = << 1, 2, 3 >>

\* C13 as stated: predictions share no mutable state: the module-level tables
\* SECTOR_ETFS and BEARISH_SENTIMENT_KEYWORDS have the same contents after any
\* number of predictions as before the first one.  (SECTOR_ETFS is never written.)
C13_TablesUnchanged == BEARISH_SENTIMENT_KEYWORDS = InitialKeywords

-----------------------------------------------------------------------------
(* Properties of two calls in a row (SpecTwice) *)

\* the second call has returned
SecondReturned == pc = "done" /\ ret.returned

\* both calls were answered with the same history
SameHistory == call.hist2 = call.hist

\* C12 as stated: given the same frozen external data (mocked fetch), calling
\* generate_verified_prediction twice for the same symbol yields predictions that
\* are equal in every field except timestamp.
C12_IdempotentAsStated ==
    (SecondReturned /\ SameHistory) => pred = ret.value

\* C12 amended: given the same frozen external data and the same clock reading
\* (weekday and minutes since 9:30), calling generate_verified_prediction twice
\* for the same symbol yields predictions that are equal in every field except
\* timestamp.
C12_IdempotentSameClock ==
    (SecondReturned /\ SameHistory /\ timestamp = ret.timestamp) => pred = ret.value

\* C12 witness: two NVDA predictions at the same clock reading, both failing tier 2
\* on the same headline, although the first call left the keyword table longer
C12_Witness ==
    /\ SecondReturned /\ SameHistory /\ timestamp = ret.timestamp
    /\ symbol = "NVDA"
    /\ Len(pred.tier_results) = 3 /\ ~pred.tier_results[2].passed
    /\ Len(BEARISH_SENTIMENT_KEYWORDS["NVDA"]) > Len(InitialKeywords["NVDA"]) + 3
    /\ pred = ret.value


\* the two calls were answered with histories that agree on every row but the last
SameUpToLastRow ==
    /\ ~call.hist.raised /\ ~call.hist2.raised
    /\ Len(call.hist2.value) = Len(call.hist.value)
    /\ \A i \in 1..(Len(call.hist.value) - 1) : call.hist2.value[i] = call.hist.value[i]

\* C14 as stated: a prediction never uses the current day's High, Low or Close: two
\* price histories that differ only in the High, Low or Close of their last row,
\* with every other input (the clock included) equal, produce the same prediction
\* in every field.
C14_LastRowNotUsed ==
    (SecondReturned /\ SameUpToLastRow /\ timestamp = ret.timestamp) =>
        pred = ret.value

-----------------------------------------------------------------------------
(* Properties of the alert system *)

\* how many TriggeredAlert records of manager m name the alert a
records_of(m, a) == Len(SelectSeq(m.triggered, LAMBDA t : t.alert_id = a.id))

\* C16: the alert files are rewritten wholesale from one manager's in-memory lists,
\* with no merging and no locking: whenever the files change, afterwards they hold
\* exactly the alerts of the manager that wrote and the last 100 of its triggered
\* records, whatever they held before.  So two managers over the same files can
\* lose each other's changes (C16_Witness is such an interleaving).
C16_WholesaleRewrite ==
    [][alert_files' # alert_files =>
          \E i \in Instances :
              /\ managers'[i].created
              /\ alert_files'.alerts = managers'[i].alerts
              /\ alert_files'.triggered = LastOf(managers'[i].triggered, 100)]_vars

\* C16 witness: the singleton added an alert after the monitor's manager had loaded
\* the files, the monitor's manager then triggered an alert and saved, and the
\* files now lack the alert the singleton added
C16_Witness ==
    /\ managers["monitor"].created /\ managers["global"].created
    /\ \E k \in 1..Len(managers["global"].alerts) :
          \A j \in 1..Len(alert_files.alerts) :
              alert_files.alerts[j].id # managers["global"].alerts[k].id
    /\ \E j \in 1..Len(alert_files.alerts) :
          /\ ~alert_files.alerts[j].active
          /\ managers["global"].alerts[j].active
    /\ alert_files.alerts = managers["monitor"].alerts

\* C18: each alert triggers at most once: on one AlertManager, across any
\* interleaving of check_all_alerts calls (two suspended at their sleeps at the
\* same time included), at most one TriggeredAlert is recorded for an alert, an
\* alert with a record is inactive, and an inactive alert is not checked again: it
\* stays inactive and gets no further record.
C18_TriggersAtMostOnce ==
    [][\A k \in 1..Len(managers'["global"].alerts) :
          LET m == managers'["global"]
              a == m.alerts[k]
          IN  /\ records_of(m, a) <= 1
              /\ records_of(m, a) = 1 => ~a.active
              /\ (k <= Len(managers["global"].alerts)
                      /\ ~managers["global"].alerts[k].active) =>
                    (~a.active /\ records_of(m, a) = records_of(managers["global"], a))]_vars

\* C18 witness: a check_all_alerts call is suspended at its sleep with NVDA still
\* to visit, although another call, which started later and is suspended too, has
\* already triggered the NVDA alert
C18_Witness ==
    /\ checks["c1"].pc = "sleep" /\ checks["c2"].pc = "sleep"
    /\ checks["c1"].symbols = << "NVDA" >>
    /\ \E j \in 1..Len(checks["c2"].triggered_now) :
          checks["c2"].triggered_now[j].symbol = "NVDA"
    /\ \E k \in 1..Len(managers["global"].alerts) :
          /\ managers["global"].alerts[k].symbol = "NVDA"
          /\ ~managers["global"].alerts[k].active
          /\ records_of(managers["global"], managers["global"].alerts[k]) = 1

\* the quote carries a price
has_price(quote) ==
    "currentPrice" \in DOMAIN quote \/ "regularMarketPrice" \in DOMAIN quote

\* C19 as stated: check_all_alerts triggers a price alert only on a real quote: the
\* alerts a call has triggered for the symbol it has just checked were triggered by
\* a quote that carries a price, at or above the target of a PRICE_ABOVE alert, at
\* or below the target of a PRICE_BELOW alert; a quote without a price triggers
\* (and deactivates) none.
C19_PriceAlertsOnRealQuote ==
    \A cid \in Coroutines :
        LET c == checks[cid]
        IN  c.pc = "sleep" =>
              \A j \in 1..Len(c.triggered_now) :
                  LET t == c.triggered_now[j]
                  IN  t.symbol = c.symbol =>
                        /\ has_price(c.info)
                        /\ t.alert_type = "price_above" =>
                              price_of(c.info) >= t.condition_value[1]
                        /\ t.alert_type = "price_below" =>
                              price_of(c.info) <= t.condition_value[1]

-----------------------------------------------------------------------------
(* Properties of the adaptive parameters *)

\* the changes of a history that were approved
approved_in(history) == SelectSeq(history, LAMBDA c : c.status = "approved")

\* the entries the history gains in a step
history_gained == SubSeq(change_history', Len(change_history) + 1, Len(change_history'))

\* C20: active parameters change only with user approval.  A step that approves
\* nothing (suggest_change, generate_suggestions_from_audit, reject_change,
\* reject_all, an approve_change that fails) leaves every field of params
\* unchanged; a successful approve_change sets the named parameter to the suggested
\* value, changes no other parameter apart from last_updated and version, and
\* raises version by exactly 1 (approve_all: by 1 for each change it approves, and
\* every parameter it changes is named by one of them); so version is 1 plus the
\* number of approvals made since the defaults.
C20_ParamsChangeOnlyOnApproval ==
    [][LET approved == approved_in(history_gained)
       IN  /\ Len(approved) = 0 => params' = params
           /\ params'.version = params.version + Len(approved)
           /\ Len(approved) = 1 =>
                 /\ params'[approved[1].parameter] = approved[1].suggested_value
                 /\ \A f \in DOMAIN params \ {approved[1].parameter, "last_updated", "version"} :
                       params'[f] = params[f]
           /\ \A f \in DOMAIN params \ {"last_updated", "version"} :
                 params'[f] # params[f] =>
                     \E j \in 1..Len(approved) :
                         approved[j].parameter = f /\ approved[j].suggested_value = params'[f]
           /\ params'.version = 1 + Len(approved_in(change_history'))]_vars

\* C20 witness: after one rejection and one approval the version is 2, the approved
\* parameter holds its suggested value and the rejected one its default, and a
\* further suggestion is pending
C20_Witness ==
    /\ params.version = 2
    /\ Len(change_history) = 2
    /\ change_history[1].status = "rejected"
    /\ change_history[2].status = "approved"
    /\ change_history[1].parameter # change_history[2].parameter
    /\ params[change_history[2].parameter] = change_history[2].suggested_value
    /\ params[change_history[2].parameter] # DefaultParameters[change_history[2].parameter]
    /\ params[change_history[1].parameter] = DefaultParameters[change_history[1].parameter]
    /\ pending_changes # << >>

\* C22 as stated: every pending ParameterChange has a distinct id, so that
\* approve_change(id) and reject_change(id) act on exactly the one suggestion the
\* user named, also for the suggestions of a single generate_suggestions_from_audit
\* call in which two failure keys map to the same parameter.
C22_DistinctPendingIds ==
    \A i, j \in 1..Len(pending_changes) :
        i # j => pending_changes[i].id # pending_changes[j].id

-----------------------------------------------------------------------------
(* Properties of the entry signals *)

\* the field of AdaptiveParameters that carries the weight of each condition
weight_parameter ==
    [name \in ConditionNames |->
        CASE name = "VWAP Position" -> "vwap_weight"
          [] name = "Volume Confirmation" -> "volume_weight"
          [] name = "Not Overextended" -> "overextension_weight"
          [] name = "No Dilution Risk" -> "dilution_weight"
          [] name = "Morning Settled" -> "morning_settled_weight"
          [] name = "Above Support" -> "support_weight"
          [] name = "Positive Momentum" -> "momentum_weight"
          [] name = "Near Support" -> "near_support_weight"
          [] name = "Volume Healthy" -> "volume_health_weight"
          [] name = "Controlled Volatility" -> "volatility_weight"]

\* the conditions of an analysis weighted as the parameters p say
weighted_by(p, conditions) ==
    [i \in 1..Len(conditions) |->
        [conditions[i] EXCEPT !.weight = p[weight_parameter[conditions[i].name]]]]

\* the classification of lines 254-261 with the thresholds of the parameters p
signal_by(p, confidence, critical_passed) ==
    IF confidence >= p.strong_buy_threshold /\ critical_passed = 4 THEN "strong_buy"
    ELSE IF confidence >= p.buy_threshold /\ critical_passed >= 3 THEN "buy"
    ELSE IF confidence >= p.wait_threshold THEN "wait"
    ELSE "no_entry"

\* C21 as stated: an approved parameter change is applied to the trading system:
\* every analyze_entry that finds market data weighs its conditions with the
\* weights of the active parameters and classifies its confidence with their
\* strong_buy_threshold and buy_threshold, so after an approval with the new value.
C21_ApprovedChangeApplied ==
    [][(analysis' # analysis /\ analysis'[1].conditions # << >>) =>
          LET a == analysis'[1]
              stated == weighted_by(params, a.conditions)
          IN  /\ a.conditions = stated
              /\ a.confidence = entry_confidence(stated)
              /\ a.signal = signal_by(params, entry_confidence(stated),
                                      critical_passed_of(stated))]_vars

\* C24 as stated: scan_and_alert alerts only if the signal changed or is
\* STRONG_BUY: in every scan the analysis message of a symbol is sent exactly when
\* its signal in that scan is STRONG_BUY, or is BUY and differs from the signal the
\* symbol had in the previous scan (so BUY, then WAIT, then BUY sends the message
\* for both BUY scans).
C24_AlertOnChangeOrStrongBuy ==
    \A sym \in DOMAIN scan.signals :
        InSeq(sym, scan.sent) <=>
            \/ scan.signals[sym] = "strong_buy"
            \/ scan.signals[sym] = "buy" /\ scan.previous[sym] # "buy"

-----------------------------------------------------------------------------
(* Properties of the improvement suggestions *)

\* how many entries of a list of suggestions name the parameter
naming(suggestions, parameter) ==
    Len(SelectSeq(suggestions, LAMBDA x : x.parameter = parameter))

\* C23: at most one pending improvement suggestion exists per parameter: after any
\* sequence of generate_suggestions_from_audit, approve_suggestion and
\* reject_suggestion calls no two entries of the pending list name the same
\* parameter, and a newly generated suggestion for a parameter that already has a
\* pending one is not added: the pending one stays as it is until it is approved
\* or rejected.
C23_OnePendingPerParameter ==
    [][/\ \A i, j \in 1..Len(improve'.pending) :
             i # j => improve'.pending[i].parameter # improve'.pending[j].parameter
       /\ \A i \in 1..Len(improve.pending) :
             \/ \E j \in 1..Len(improve'.pending) : improve'.pending[j] = improve.pending[i]
             \/ /\ naming(improve'.pending, improve.pending[i].parameter) = 0
                /\ Len(improve'.history) > Len(improve.history)]_vars

\* C23 witness: one call generated two suggestions for overextension_weight, of
\* which the pending list holds the first, and a suggestion for buy_threshold,
\* which had been pending since an earlier call and was not replaced
C23_Witness ==
    /\ naming(improve.returned, "overextension_weight") = 2
    /\ naming(improve.pending, "overextension_weight") = 1
    /\ \E i \in 1..Len(improve.pending) :
          /\ improve.pending[i] = improve.returned[2]
          /\ improve.pending[i].suggested_value = 10
    /\ improve.returned[1].parameter = "buy_threshold"
    /\ \E i \in 1..Len(improve.pending) :
          /\ improve.pending[i].parameter = "buy_threshold"
          /\ improve.pending[i].id[2] < improve.returned[1].id[2]


-----------------------------------------------------------------------------
(* Properties of the refined price target (SpecFn) *)

\* C25: with the EPS-revision override active the target after the cap step is never
\* lower than the target the same inputs give without the override, whatever the sign
\* of the 6-month SOXX growth rate
C25_OverrideOnlyLoosens ==
    (call.fn = "time_decay_calibration" /\ ret.returned /\ call.eps_override) =>
        ret.value.adjusted_target >=
            time_decay_calibration(call.adjusted_target, call.current_price,
                                   call.soxx_growth, FALSE).adjusted_target


-----------------------------------------------------------------------------
(* Properties of the stop and the risk figures (Spec) *)

\* C26: in a non-degraded prediction the stop max(0.98 x support, price - ATR14) lies
\* strictly below the entry exactly when price > 0.98 x support and ATR14 > 0; in
\* every other case entry - stop <= 0, risk_reward_ratio is 0, target <= entry and
\* position_risk_pct <= 0
C26_StopBelowEntry ==
    NonDegraded =>
        LET entry == pred.entry_price
            stop == pred.stop_loss
        IN  /\ entry = current_price * SCALE
            /\ stop = Max(Times098(support), current_price * SCALE - atr)
            /\ stop < entry <=> (current_price * SCALE > Times098(support) /\ atr > 0)
            /\ ~(stop < entry) =>
                    /\ entry - stop <= 0
                    /\ pred.risk_reward_ratio.num = 0
                    /\ pred.risk_reward_ratio.den > 0
                    /\ pred.target_price <= entry
                    /\ pred.position_risk_pct.num <= 0
                    /\ pred.position_risk_pct.den > 0

\* C26 witness: a prediction priced below 0.98 x support while the ATR is positive,
\* so the stop lies above the entry
C26_Witness ==
    /\ NonDegraded
    /\ pred.atr_14 > 0
    /\ current_price * SCALE < Times098(support)
    /\ pred.stop_loss > pred.entry_price


=============================================================================
